---- MODULE Spec2Model ----
(***************************************************************************)
(* A model of the in-process cache layer of aws-honorjs-core:              *)
(* MemoryCache (src/src/services/cache/index.ts, lines 254-548),          *)
(* LambdaCache (src/src/services/cache/lambda-cache.ts), and CacheFactory, *)
(* CacheManager and wrapWithCache (index.ts, lines 9-211).                 *)
(*                                                                         *)
(* Time is in milliseconds, TTLs are in seconds, as in the source.  A JS   *)
(* Map is a sequence of records in insertion order: Map.set on a key that  *)
(* is present keeps the key's position, Map.delete removes it.  An         *)
(* optional value (T | undefined) is a sequence of length 0 or 1.          *)
(***************************************************************************)
EXTENDS Integers, Sequences, FiniteSets, TLC

\* ---------------------------------------------------------------- bounds

\* largest maxSize a cache is constructed with
MaxSize == 2
\* the clock runs from 0 to MaxNow
MaxNow == 1001
\* gets, sets and deletes a cache performs between two clear() calls
MaxOps == 4
\* set calls that may be suspended at the same time
MaxPending == 2
\* entries of the map given to mset
MaxBatch == 2
\* LambdaCache objects constructed in the process
MaxInstances == 3
\* instances of LambdaCache beside a MemoryCache
MaxCaches == 2

\* --------------------------------------------------------------- constants

\* Number.POSITIVE_INFINITY: larger than every time the clock reaches
Infinity == 1000000000
\* ttl is in seconds, timestamps are in milliseconds
MsPerSecond == 1000
\* the default of maxSize
DefaultMaxSize == 1000
\* estimateMemoryUsage: bytes per UTF-16 code unit, bytes per entry
BytesPerChar == 2
EntryOverhead == 100
\* LambdaCache: the defaults of maxSize and cleanupInterval, bytes per entry
LambdaDefaultMaxSize == 100
LambdaDefaultCleanupInterval == 100
LambdaEntryOverhead == 150

\* JS values a caller stores: an ordinary string, undefined and null
Undefined == "undefined"
Null == "null"
Values == {"v1", Undefined, Null}
\* the values other than null and undefined that are falsy in JS, each
\* modelled by the string that names it: the empty string, 0 and false
FalsyResults == {"", "0", "false"}
\* the values of the calls that are started without being awaited
FanOutValues == {"v1", "v2"}

\* keys are strings; the empty string is a key like any other
Keys == {"", "k1", "k2"}
\* ret.key of an operation that takes no key
NoKey == "-"

Policies == {"lru", "lfu", "fifo"}

\* options.ttl of a set call, or of the constructor: absent, or seconds
TtlOptions == {<<>>, <<-1>>, <<0>>, <<1>>}

\* the instants the clock is read at: construction, each whole second after
\* it and the millisecond after each of these seconds
Instants == {0} \cup {t \in MsPerSecond..MaxNow : t % MsPerSecond \in {0, 1}}

\* the keys of the calls that are started without being awaited
FanOutKeys == {"k1", "k2", "k3", "k4"}
AllKeys == Keys \cup FanOutKeys

\* key.length
Length(key) == IF key = "" THEN 0 ELSE 2

\* JSON.stringify(value): "v1" gives the four characters "v1" with its quotes,
\* null gives null, undefined gives no string at all
Stringify(value) ==
  CASE value = Undefined -> <<>>
    [] value = Null -> <<4>>
    [] OTHER -> <<4>>

\* ------------------------------------------------------------ JS Map

MapIndex(m, key) ==
  IF \E i \in 1..Len(m) : m[i].key = key
    THEN CHOOSE i \in 1..Len(m) : m[i].key = key
    ELSE 0

MapHas(m, key) == MapIndex(m, key) # 0

\* Map.get: <<>> for undefined, <<record>> otherwise
MapGet(m, key) == IF MapHas(m, key) THEN <<m[MapIndex(m, key)]>> ELSE <<>>

\* Map.set: a present key keeps its position, a new key goes last
MapSet(m, rec) ==
  IF MapHas(m, rec.key)
    THEN [m EXCEPT ![MapIndex(m, rec.key)] = rec]
    ELSE Append(m, rec)

MapDelete(m, key) == SelectSeq(m, LAMBDA e : e.key # key)

MapKeys(m) == {m[i].key : i \in 1..Len(m)}

\* ------------------------------------------------------------ state

VARIABLES
  options,        \* this.options: maxSize, evictionPolicy, ttl, autoCleanup
  store,          \* this.store: Map<string, CacheEntry>
  accessOrder,    \* this.accessOrder: Map<string, number>
  stats,          \* this._stats
  accessCounter,  \* this.accessCounter
  cleanupTimer,   \* this.cleanupTimer is set
  now,            \* Date.now()
  pending,        \* the microtask queue: continuations of suspended set calls
  ret,            \* the last call: its name, its key and what it returned
  written,        \* history: per key, the last set that was started for it
  recency,        \* history: the stored keys, least recently touched first
  globalStore,          \* LambdaCache.globalStore
  globalAccessOrder,    \* LambdaCache.globalAccessOrder
  globalAccessCounter,  \* LambdaCache.globalAccessCounter
  invocationCount,      \* LambdaCache.invocationCount
  instances,            \* the LambdaCache objects, in the order of construction
  calls,                \* history: the gets, sets and deletes made on them
  env,                  \* process.env: the two variables CacheFactory.auto reads
  caches,               \* CacheManager.caches: the tiers, fastest first
  managerStats,         \* CacheManager._stats
  invoked,              \* history: the calls of the function given to wrapWithCache
  running               \* the calls of the wrapped function that await fn

\* the static fields of LambdaCache and its instances
lambdaVars ==
  <<globalStore, globalAccessOrder, globalAccessCounter, invocationCount, instances,
    calls>>

\* the environment, the manager and the wrapped function
serviceVars == <<env, caches, managerStats, invoked, running>>

vars == <<options, store, accessOrder, stats, accessCounter, cleanupTimer,
          now, pending, ret, written, recency, lambdaVars, serviceVars>>

\* the mutable fields of a MemoryCache as one record
This ==
  [store |-> store, accessOrder |-> accessOrder, stats |-> stats,
   accessCounter |-> accessCounter]

ZeroStats == [hits |-> 0, misses |-> 0, sets |-> 0, deletes |-> 0, evictions |-> 0]

\* gets, sets and deletes counted since construction or the last clear()
Work(s) == s.stats.hits + s.stats.misses + s.stats.sets + s.stats.deletes

\* ------------------------------------------------------------ MemoryCache

isExpiredAtBoundary(entry, t) == entry.expiresAt <= t

\* isExpired: entry.expiresAt < Date.now()
isExpired(entry, t) == entry.expiresAt < t

deleteReturningTrue(s, key) ==
  [s |-> [s EXCEPT !.store = MapDelete(@, key),
                   !.accessOrder = MapDelete(@, key),
                   !.stats.deletes = @ + 1],
   deleted |-> TRUE]

\* a variant that leaves the access-order record of the key it removes
deleteLeavingOrder(s, key) ==
  IF MapHas(s.store, key)
    THEN [s |-> [s EXCEPT !.store = MapDelete(@, key),
                          !.stats.deletes = @ + 1],
          deleted |-> TRUE]
    ELSE [s |-> s, deleted |-> FALSE]

\* delete: the cache after the call and the boolean it returns
delete(s, key) ==
  IF MapHas(s.store, key)
    THEN [s |-> [s EXCEPT !.store = MapDelete(@, key),
                          !.accessOrder = MapDelete(@, key),
                          !.stats.deletes = @ + 1],
          deleted |-> TRUE]
    ELSE [s |-> s, deleted |-> FALSE]

getCoalescing(s, key, t) ==
  LET entry == MapGet(s.store, key) IN
  IF entry = <<>>
    THEN [s |-> [s EXCEPT !.stats.misses = @ + 1], value |-> Null, hit |-> FALSE]
    ELSE IF isExpired(entry[1], t)
      THEN [s |-> [s EXCEPT !.store = MapDelete(@, key),
                            !.accessOrder = MapDelete(@, key),
                            !.stats.misses = @ + 1],
            value |-> Null, hit |-> FALSE]
      ELSE [s |-> [s EXCEPT
                     !.store = MapSet(@, [entry[1] EXCEPT !.accessCount = @ + 1,
                                                          !.lastAccessAt = t]),
                     !.accessOrder = MapSet(@, [key |-> key, n |-> s.accessCounter + 1]),
                     !.accessCounter = @ + 1,
                     !.stats.hits = @ + 1],
            value |-> IF entry[1].value = Undefined THEN Null ELSE entry[1].value,
            hit |-> TRUE]

\* a variant that leaves the expired entry it finds in the maps
getLeavingExpired(s, key, t) ==
  LET entry == MapGet(s.store, key) IN
  IF entry = <<>> \/ isExpired(entry[1], t)
    THEN [s |-> [s EXCEPT !.stats.misses = @ + 1], value |-> Null, hit |-> FALSE]
    ELSE [s |-> [s EXCEPT
                   !.store = MapSet(@, [entry[1] EXCEPT !.accessCount = @ + 1,
                                                        !.lastAccessAt = t]),
                   !.accessOrder = MapSet(@, [key |-> key, n |-> s.accessCounter + 1]),
                   !.accessCounter = @ + 1,
                   !.stats.hits = @ + 1],
          value |-> entry[1].value, hit |-> TRUE]

\* get: the cache after the call, the value it returns (Null for absent) and
\* whether the call was counted as a hit
get(s, key, t) ==
  LET entry == MapGet(s.store, key) IN
  IF entry = <<>>
    THEN [s |-> [s EXCEPT !.stats.misses = @ + 1], value |-> Null, hit |-> FALSE]
    ELSE IF isExpired(entry[1], t)
      THEN [s |-> [s EXCEPT !.store = MapDelete(@, key),
                            !.accessOrder = MapDelete(@, key),
                            !.stats.misses = @ + 1],
            value |-> Null, hit |-> FALSE]
      ELSE [s |-> [s EXCEPT
                     !.store = MapSet(@, [entry[1] EXCEPT !.accessCount = @ + 1,
                                                          !.lastAccessAt = t]),
                     !.accessOrder = MapSet(@, [key |-> key, n |-> s.accessCounter + 1]),
                     !.accessCounter = @ + 1,
                     !.stats.hits = @ + 1],
            value |-> entry[1].value, hit |-> TRUE]

hasTouching(s, key, t) ==
  LET entry == MapGet(s.store, key) IN
  IF entry = <<>>
    THEN [s |-> s, found |-> FALSE]
    ELSE IF isExpired(entry[1], t)
      THEN [s |-> [s EXCEPT !.store = MapDelete(@, key),
                            !.accessOrder = MapDelete(@, key)],
            found |-> FALSE]
      ELSE [s |-> [s EXCEPT
                     !.accessOrder = MapSet(@, [key |-> key, n |-> s.accessCounter + 1]),
                     !.accessCounter = @ + 1],
            found |-> TRUE]

\* has: the cache after the call and the boolean it returns
has(s, key, t) ==
  LET entry == MapGet(s.store, key) IN
  IF entry = <<>>
    THEN [s |-> s, found |-> FALSE]
    ELSE IF isExpired(entry[1], t)
      THEN [s |-> [s EXCEPT !.store = MapDelete(@, key),
                            !.accessOrder = MapDelete(@, key)],
            found |-> FALSE]
      ELSE [s |-> s, found |-> TRUE]

clearKeepingCounters(s) ==
  [store |-> <<>>, accessOrder |-> <<>>, stats |-> s.stats, accessCounter |-> 0]

\* clear
clear(s) ==
  [store |-> <<>>, accessOrder |-> <<>>, stats |-> ZeroStats, accessCounter |-> 0]

\* the loop of findLRUKey over accessOrder, from position i on
RECURSIVE lruScan(_, _, _, _)
lruScan(m, i, oldestAccess, lruKey) ==
  IF i > Len(m) THEN lruKey
  ELSE IF m[i].n < oldestAccess
    THEN lruScan(m, i + 1, m[i].n, <<m[i].key>>)
    ELSE lruScan(m, i + 1, oldestAccess, lruKey)

findLRUKey(s) == lruScan(s.accessOrder, 1, Infinity, <<>>)

\* the loop of findLFUKey over store
RECURSIVE lfuScan(_, _, _, _)
lfuScan(m, i, minAccessCount, lfuKey) ==
  IF i > Len(m) THEN lfuKey
  ELSE IF m[i].accessCount < minAccessCount
    THEN lfuScan(m, i + 1, m[i].accessCount, <<m[i].key>>)
    ELSE lfuScan(m, i + 1, minAccessCount, lfuKey)

findLFUKey(s) == lfuScan(s.store, 1, Infinity, <<>>)

\* the loop of findFIFOKey over store
RECURSIVE fifoScan(_, _, _, _)
fifoScan(m, i, oldestCreation, fifoKey) ==
  IF i > Len(m) THEN fifoKey
  ELSE IF m[i].createdAt < oldestCreation
    THEN fifoScan(m, i + 1, m[i].createdAt, <<m[i].key>>)
    ELSE fifoScan(m, i + 1, oldestCreation, fifoKey)

findFIFOKey(s) == fifoScan(s.store, 1, Infinity, <<>>)

\* if (keyToEvict): undefined and the empty string are falsy
Truthy(optKey) == optKey # <<>> /\ optKey[1] # ""

\* evictLeastUsed up to its await: the cache then, and whether the call is
\* suspended at `await this.delete(keyToEvict)` (it returns at once otherwise)
evictLeastUsedStart(s, o) ==
  IF Len(s.store) = 0 THEN [s |-> s, awaiting |-> FALSE]
  ELSE
    LET keyToEvict ==
          CASE o.evictionPolicy = "lru" -> findLRUKey(s)
            [] o.evictionPolicy = "lfu" -> findLFUKey(s)
            [] o.evictionPolicy = "fifo" -> findFIFOKey(s)
    IN IF Truthy(keyToEvict)
         THEN [s |-> delete(s, keyToEvict[1]).s, awaiting |-> TRUE]
         ELSE [s |-> s, awaiting |-> FALSE]

\* evictLeastUsed after its await
evictLeastUsedResume(s) == [s EXCEPT !.stats.evictions = @ + 1]

\* set, lines 326-328: expiresAt from options.ttl ?? this.options.ttl
expiresAtOf(ttlOption, o, t) ==
  LET ttl == IF ttlOption # <<>> THEN ttlOption ELSE o.ttl IN
  IF ttl # <<>> /\ ttl[1] # 0 THEN t + (ttl[1] * MsPerSecond) ELSE Infinity

\* this.options.maxSize || 1000
maxSizeOf(o) == IF o.maxSize # 0 THEN o.maxSize ELSE DefaultMaxSize

\* set, line 331: the store is full and key is not in it
mustEvict(s, o, key) == Len(s.store) >= maxSizeOf(o) /\ ~MapHas(s.store, key)

\* a variant that keeps createdAt and accessCount of the entry it replaces
insertKeepingMetadata(s, key, value, expiresAt, t) ==
  LET old == MapGet(s.store, key) IN
  [s EXCEPT
     !.store = MapSet(@, [key |-> key, value |-> value, expiresAt |-> expiresAt,
                          createdAt |-> IF old # <<>> THEN old[1].createdAt ELSE t,
                          accessCount |-> IF old # <<>> THEN old[1].accessCount ELSE 0,
                          lastAccessAt |-> t]),
     !.accessOrder = MapSet(@, [key |-> key, n |-> s.accessCounter + 1]),
     !.accessCounter = @ + 1,
     !.stats.sets = @ + 1]

\* set, lines 335-345: t is the `now` the call read when it started
insert(s, key, value, expiresAt, t) ==
  [s EXCEPT
     !.store = MapSet(@, [key |-> key, value |-> value, expiresAt |-> expiresAt,
                          createdAt |-> t, accessCount |-> 0, lastAccessAt |-> t]),
     !.accessOrder = MapSet(@, [key |-> key, n |-> s.accessCounter + 1]),
     !.accessCounter = @ + 1,
     !.stats.sets = @ + 1]

\* set, awaited by its caller: nothing runs between its steps
set(s, o, key, value, ttlOption, t) ==
  LET e == evictLeastUsedStart(s, o)
      s1 == IF mustEvict(s, o, key)
              THEN IF e.awaiting THEN evictLeastUsedResume(e.s) ELSE e.s
              ELSE s
  IN insert(s1, key, value, expiresAtOf(ttlOption, o, t), t)

\* a set call that is started and not awaited, up to its first await: the
\* cache then, and the microtask queue q with the continuation of the call if
\* it is suspended at `await this.evictLeastUsed()`
setStart(s, o, q, key, value, ttlOption, t) ==
  IF mustEvict(s, o, key)
    THEN LET e == evictLeastUsedStart(s, o) IN
         [s |-> e.s,
          q |-> Append(q, [stage |-> IF e.awaiting THEN "evictLeastUsed" ELSE "set",
                           key |-> key, value |-> value,
                           expiresAt |-> expiresAtOf(ttlOption, o, t), now |-> t])]
    ELSE [s |-> insert(s, key, value, expiresAtOf(ttlOption, o, t), t), q |-> q]

\* mset, line 409: entries.map starts one set call per entry, in the map's
\* iteration order, without awaiting any
RECURSIVE msetStart(_, _, _, _, _, _)
msetStart(s, o, q, entries, ttlOption, t) ==
  IF entries = <<>> THEN [s |-> s, q |-> q]
  ELSE LET r == setStart(s, o, q, Head(entries).key, Head(entries).value,
                         ttlOption, t)
       IN msetStart(r.s, o, r.q, Tail(entries), ttlOption, t)

\* mset, line 413: Promise.all settles when the microtask queue has run every
\* continuation, first in first out; evictLeastUsed after its await queues
\* the set call that awaits it
RECURSIVE msetSettle(_, _)
msetSettle(s, q) ==
  IF q = <<>> THEN s
  ELSE LET c == Head(q) IN
       IF c.stage = "evictLeastUsed"
         THEN msetSettle(evictLeastUsedResume(s),
                         Append(Tail(q), [c EXCEPT !.stage = "set"]))
         ELSE msetSettle(insert(s, c.key, c.value, c.expiresAt, c.now), Tail(q))

\* mset
mset(s, o, entries, ttlOption, t) ==
  LET r == msetStart(s, o, <<>>, entries, ttlOption, t) IN msetSettle(r.s, r.q)

\* a variant that also removes the entries that expire at this instant
cleanupExpiredAtBoundary(s, t) ==
  LET expired(e) == e.expiresAt <= t IN
  [s EXCEPT !.store = SelectSeq(@, LAMBDA e : ~expired(e)),
            !.accessOrder = SelectSeq(@, LAMBDA a :
                ~\E i \in 1..Len(s.store) :
                    s.store[i].key = a.key /\ expired(s.store[i]))]

\* cleanupExpired: the keys of the expired entries leave both maps
cleanupExpired(s, t) ==
  LET expired(e) == e.expiresAt < t IN
  [s EXCEPT !.store = SelectSeq(@, LAMBDA e : ~expired(e)),
            !.accessOrder = SelectSeq(@, LAMBDA a :
                ~\E i \in 1..Len(s.store) :
                    s.store[i].key = a.key /\ expired(s.store[i]))]

\* estimateMemoryUsage: <<bytes>>, or <<>> when it throws a TypeError
\* (JSON.stringify(undefined) is undefined, which has no length)
RECURSIVE memoryScan(_, _, _)
memoryScan(m, i, bytes) ==
  IF i > Len(m) THEN <<bytes>>
  ELSE IF Stringify(m[i].value) = <<>> THEN <<>>
  ELSE memoryScan(m, i + 1,
         bytes + Length(m[i].key) * BytesPerChar
               + Stringify(m[i].value)[1] * BytesPerChar + EntryOverhead)

estimateMemoryUsage(s) == memoryScan(s.store, 1, 0)

\* Math.round(hitRate * 100), the hit rate in hundredths
hitRateHundredths(s) ==
  LET totalAccess == s.stats.hits + s.stats.misses IN
  IF totalAccess > 0
    THEN (200 * s.stats.hits + totalAccess) \div (2 * totalAccess)
    ELSE 0

\* stats: the cache after the sweep, and the object returned (<<>> when
\* estimateMemoryUsage throws)
statsOf(s, t) ==
  LET s1 == cleanupExpired(s, t)
      mem == estimateMemoryUsage(s1)
  IN [s |-> s1,
      result |-> IF mem = <<>> THEN <<>>
                 ELSE <<[size |-> Len(s1.store), hits |-> s1.stats.hits,
                         misses |-> s1.stats.misses,
                         hitRate |-> hitRateHundredths(s1),
                         memoryUsage |-> mem[1]]>>]

destroyLeavingTimer(timer) == timer

\* destroy: whether this.cleanupTimer is set after the call
destroy(timer) == IF timer THEN FALSE ELSE timer

\* ------------------------------------------------------------ LambdaCache

\* A namespace, a key and a key of the store are strings, modelled as
\* sequences of characters so that prefixes and concatenation are what they
\* are in the source.

\* str.startsWith(prefix)
startsWith(str, prefix) ==
  /\ Len(str) >= Len(prefix)
  /\ SubSeq(str, 1, Len(prefix)) = prefix

\* str.replace(pattern, ''): the first occurrence of pattern is removed
replace(str, pattern) ==
  LET at == {i \in 1..(Len(str) - Len(pattern) + 1) :
               SubSeq(str, i, i + Len(pattern) - 1) = pattern}
      first == CHOOSE i \in at : \A j \in at : i <= j
  IN IF at = {} THEN str
     ELSE SubSeq(str, 1, first - 1) \o SubSeq(str, first + Len(pattern), Len(str))

\* `${this.options.namespace}:`
prefixOf(o) == o.namespace \o <<":">>

\* buildKey
buildKey(o, key) == prefixOf(o) \o key

ZeroLambdaStats ==
  [hits |-> 0, misses |-> 0, sets |-> 0, deletes |-> 0, evictions |-> 0,
   coldStarts |-> 0, warmStarts |-> 0]

\* An instance as the methods see it, l: its options and fields, with store
\* and accessOrder the maps the fields refer to (the static maps when
\* useGlobalContext is set), and the static fields the methods read or write.

\* this.options.maxSize || 100
lambdaMaxSizeOf(o) == IF o.maxSize # 0 THEN o.maxSize ELSE LambdaDefaultMaxSize

lambdaIsExpired(entry, t) == entry.expiresAt < t

\* the keys of the store that start with the prefix of the instance, in the
\* store's iteration order
namespaceKeys(l) ==
  LET mine == SelectSeq(l.store, LAMBDA e : startsWith(e.key, prefixOf(l.options)))
  IN [i \in 1..Len(mine) |-> mine[i].key]

\* getNamespaceSize
getNamespaceSize(l) ==
  IF ~l.options.useGlobalContext THEN Len(l.store) ELSE Len(namespaceKeys(l))

\* get
lambdaGet(l, key, t) ==
  LET fullKey == buildKey(l.options, key)
      entry == MapGet(l.store, fullKey)
  IN
  IF entry = <<>>
    THEN [l |-> [l EXCEPT !.stats.misses = @ + 1], value |-> Null, hit |-> FALSE]
    ELSE IF lambdaIsExpired(entry[1], t)
      THEN [l |-> [l EXCEPT !.store = MapDelete(@, fullKey),
                            !.accessOrder = MapDelete(@, fullKey),
                            !.stats.misses = @ + 1],
            value |-> Null, hit |-> FALSE]
      ELSE [l |-> [l EXCEPT
                     !.store = MapSet(@, [entry[1] EXCEPT !.accessCount = @ + 1,
                                                          !.lastAccessAt = t]),
                     !.accessOrder = MapSet(@, [key |-> fullKey,
                                                n |-> l.accessCounter + 1]),
                     !.accessCounter = @ + 1,
                     !.stats.hits = @ + 1],
            value |-> entry[1].value, hit |-> TRUE]

\* delete
lambdaDelete(l, key) ==
  LET fullKey == buildKey(l.options, key) IN
  IF MapHas(l.store, fullKey)
    THEN [l |-> [l EXCEPT !.store = MapDelete(@, fullKey),
                          !.accessOrder = MapDelete(@, fullKey),
                          !.stats.deletes = @ + 1],
          deleted |-> TRUE]
    ELSE [l |-> l, deleted |-> FALSE]

\* has
lambdaHas(l, key, t) ==
  LET fullKey == buildKey(l.options, key)
      entry == MapGet(l.store, fullKey)
  IN
  IF entry = <<>>
    THEN [l |-> l, found |-> FALSE]
    ELSE IF lambdaIsExpired(entry[1], t)
      THEN [l |-> [l EXCEPT !.store = MapDelete(@, fullKey),
                            !.accessOrder = MapDelete(@, fullKey)],
            found |-> FALSE]
      ELSE [l |-> l, found |-> TRUE]

\* the loop of findLRUKey over keys: this.accessOrder.get(key) || 0
RECURSIVE lambdaLruScan(_, _, _, _, _)
lambdaLruScan(l, keys, i, oldestAccess, lruKey) ==
  IF i > Len(keys) THEN lruKey
  ELSE LET record == MapGet(l.accessOrder, keys[i])
           accessTime == IF record # <<>> THEN record[1].n ELSE 0
       IN IF accessTime < oldestAccess
            THEN lambdaLruScan(l, keys, i + 1, accessTime, <<keys[i]>>)
            ELSE lambdaLruScan(l, keys, i + 1, oldestAccess, lruKey)

lambdaFindLRUKey(l, keys) == lambdaLruScan(l, keys, 1, Infinity, <<>>)

\* the loop of findLFUKey over keys
RECURSIVE lambdaLfuScan(_, _, _, _, _)
lambdaLfuScan(l, keys, i, minAccessCount, lfuKey) ==
  IF i > Len(keys) THEN lfuKey
  ELSE LET entry == MapGet(l.store, keys[i]) IN
       IF entry # <<>> /\ entry[1].accessCount < minAccessCount
         THEN lambdaLfuScan(l, keys, i + 1, entry[1].accessCount, <<keys[i]>>)
         ELSE lambdaLfuScan(l, keys, i + 1, minAccessCount, lfuKey)

lambdaFindLFUKey(l, keys) == lambdaLfuScan(l, keys, 1, Infinity, <<>>)

\* the loop of findFIFOKey over keys
RECURSIVE lambdaFifoScan(_, _, _, _, _)
lambdaFifoScan(l, keys, i, oldestCreation, fifoKey) ==
  IF i > Len(keys) THEN fifoKey
  ELSE LET entry == MapGet(l.store, keys[i]) IN
       IF entry # <<>> /\ entry[1].createdAt < oldestCreation
         THEN lambdaFifoScan(l, keys, i + 1, entry[1].createdAt, <<keys[i]>>)
         ELSE lambdaFifoScan(l, keys, i + 1, oldestCreation, fifoKey)

lambdaFindFIFOKey(l, keys) == lambdaFifoScan(l, keys, 1, Infinity, <<>>)

\* evictLeastUsed, awaited: the instance after the call and the boolean it
\* returns
lambdaEvictLeastUsed(l) ==
  LET keys == namespaceKeys(l) IN
  IF Len(keys) = 0 THEN [l |-> l, evicted |-> FALSE]
  ELSE
    LET keyToEvict ==
          CASE l.options.evictionPolicy = "lru" -> lambdaFindLRUKey(l, keys)
            [] l.options.evictionPolicy = "lfu" -> lambdaFindLFUKey(l, keys)
            [] l.options.evictionPolicy = "fifo" -> lambdaFindFIFOKey(l, keys)
    IN IF keyToEvict # <<>> /\ keyToEvict[1] # <<>>
         THEN LET originalKey == replace(keyToEvict[1], prefixOf(l.options))
                  d == lambdaDelete(l, originalKey)
              IN [l |-> [d.l EXCEPT !.stats.evictions = @ + 1], evicted |-> TRUE]
         ELSE [l |-> l, evicted |-> FALSE]

\* set, lines 128-130: expiresAt from options.ttl ?? this.options.ttl
lambdaExpiresAtOf(ttlOption, o, t) ==
  LET ttl == IF ttlOption # <<>> THEN ttlOption ELSE o.ttl IN
  IF ttl # <<>> /\ ttl[1] # 0 /\ ttl[1] > 0
    THEN t + (ttl[1] * MsPerSecond)
    ELSE Infinity

\* set, awaited by its caller
lambdaSet(l, key, value, ttlOption, t) ==
  LET fullKey == buildKey(l.options, key)
      l1 == IF Len(l.store) >= lambdaMaxSizeOf(l.options) /\ ~MapHas(l.store, fullKey)
              THEN lambdaEvictLeastUsed(l).l
              ELSE l
      l2 == [l1 EXCEPT
               !.store = MapSet(@, [key |-> fullKey, value |-> value,
                                    expiresAt |-> lambdaExpiresAtOf(ttlOption, l.options, t),
                                    createdAt |-> t, accessCount |-> 0,
                                    lastAccessAt |-> t]),
               !.accessOrder = MapSet(@, [key |-> fullKey, n |-> l1.accessCounter + 1]),
               !.accessCounter = @ + 1,
               !.stats.sets = @ + 1]
  IN IF l.options.useGlobalContext
       THEN [l2 EXCEPT !.globalAccessCounter = l2.accessCounter]
       ELSE l2

\* clear
lambdaClear(l) ==
  LET kept(e) == ~startsWith(e.key, prefixOf(l.options))
      l1 == IF l.options.useGlobalContext
              THEN [l EXCEPT !.store = SelectSeq(@, kept),
                             !.accessOrder = SelectSeq(@, kept)]
              ELSE [l EXCEPT !.store = <<>>, !.accessOrder = <<>>]
  IN [l1 EXCEPT !.accessCounter = 0,
                !.stats = [ZeroLambdaStats EXCEPT !.coldStarts = l.stats.coldStarts,
                                                  !.warmStarts = l.stats.warmStarts]]

\* cleanupExpired
lambdaCleanupExpired(l, t) ==
  LET expiredKeys ==
        {l.store[i].key : i \in {j \in 1..Len(l.store) :
            /\ startsWith(l.store[j].key, prefixOf(l.options))
            /\ l.store[j].expiresAt < t}}
  IN [l EXCEPT !.store = SelectSeq(@, LAMBDA e : e.key \notin expiredKeys),
               !.accessOrder = SelectSeq(@, LAMBDA a : a.key \notin expiredKeys),
               !.lastCleanup = t]

\* the loop of estimateMemoryUsage; values are strings of two characters,
\* which JSON.stringify quotes
RECURSIVE lambdaMemoryScan(_, _, _)
lambdaMemoryScan(l, i, bytes) ==
  IF i > Len(l.store) THEN bytes
  ELSE IF startsWith(l.store[i].key, prefixOf(l.options))
    THEN lambdaMemoryScan(l, i + 1,
           bytes + Len(l.store[i].key) * BytesPerChar
                 + Stringify(l.store[i].value)[1] * BytesPerChar
                 + LambdaEntryOverhead)
    ELSE lambdaMemoryScan(l, i + 1, bytes)

lambdaEstimateMemoryUsage(l) == lambdaMemoryScan(l, 1, 0)

\* (maxSize || 100) * 0.7, floored
defaultTargetOf(o) == (lambdaMaxSizeOf(o) * 7) \div 10

\* the loop of cleanupByMemoryPressure
RECURSIVE pressureLoop(_, _, _)
pressureLoop(l, target, cleaned) ==
  IF getNamespaceSize(l) > target
    THEN LET e == lambdaEvictLeastUsed(l) IN
         IF ~e.evicted THEN [l |-> l, cleaned |-> cleaned]
         ELSE pressureLoop(e.l, target, cleaned + 1)
    ELSE [l |-> l, cleaned |-> cleaned]

\* cleanupByMemoryPressure(targetSize), targetSize <<>> when none is given:
\* targetSize || Math.floor(...)
cleanupByMemoryPressure(l, targetSize) ==
  LET target == IF targetSize # <<>> /\ targetSize[1] # 0
                  THEN targetSize[1]
                  ELSE defaultTargetOf(l.options)
  IN pressureLoop(l, target, 0)

\* prepareColdStart: size > (maxSize || 100) * 0.8
prepareColdStart(l, t) ==
  LET l1 == lambdaCleanupExpired(l, t) IN
  IF getNamespaceSize(l1) * 10 > lambdaMaxSizeOf(l1.options) * 8
    THEN cleanupByMemoryPressure(l1, <<>>).l
    ELSE l1

\* stats: the instance after the sweep and the object returned; the hit rate
\* is in hundredths and memoryPressure is the pair currentSize, maxSize
lambdaStats(l, t) ==
  LET l1 == lambdaCleanupExpired(l, t)
      totalAccess == l1.stats.hits + l1.stats.misses
  IN [l |-> l1,
      result |->
        [size |-> getNamespaceSize(l1), hits |-> l1.stats.hits,
         misses |-> l1.stats.misses,
         hitRate |-> IF totalAccess > 0
                       THEN (200 * l1.stats.hits + totalAccess) \div (2 * totalAccess)
                       ELSE 0,
         memoryUsage |-> lambdaEstimateMemoryUsage(l1),
         lambda |-> [invocationCount |-> l1.invocationCount,
                     coldStarts |-> l1.stats.coldStarts,
                     warmStarts |-> l1.stats.warmStarts,
                     isWarm |-> l1.invocationCount > 1,
                     globalStoreSize |-> Len(l1.store),
                     namespaceSize |-> getNamespaceSize(l1),
                     lastCleanup |-> l1.lastCleanup,
                     memoryPressure |-> <<getNamespaceSize(l1),
                                          lambdaMaxSizeOf(l1.options)>>]]]

\* getLambdaContext: the object returned
getLambdaContext(l) ==
  [invocationCount |-> l.invocationCount,
   isWarm |-> l.invocationCount > 1,
   globalStoreSize |-> Len(l.store),
   namespaceSize |-> getNamespaceSize(l)]

isColdStartOfProcess(o, global) == global.invocationCount = 0

\* the constructor, lines 70 and 77: the construction is recorded as a cold
\* start
isColdStart(o, global) == o.useGlobalContext /\ global.invocationCount = 0

\* the constructor: the new instance as the methods see it.  scheduleCleanup
\* runs cleanupExpired when the invocation count is a multiple of the interval.
lambdaConstructor(o, global, t) ==
  LET shared == o.useGlobalContext
      cold == isColdStart(o, global)
      warm == shared /\ ~cold
      l == [options |-> o,
            store |-> IF shared THEN global.store ELSE <<>>,
            accessOrder |-> IF shared THEN global.accessOrder ELSE <<>>,
            accessCounter |-> IF shared THEN global.accessCounter ELSE 0,
            stats |-> [ZeroLambdaStats EXCEPT
                         !.coldStarts = IF cold THEN 1 ELSE 0,
                         !.warmStarts = IF warm THEN 1 ELSE 0],
            lastCleanup |-> 0,
            globalAccessCounter |-> global.accessCounter,
            invocationCount |-> IF shared THEN global.invocationCount + 1
                                ELSE global.invocationCount]
      interval == IF o.cleanupInterval # 0 THEN o.cleanupInterval
                  ELSE LambdaDefaultCleanupInterval
  IN IF l.invocationCount % interval = 0 THEN lambdaCleanupExpired(l, t) ELSE l

\* ------------------------------------------------------------ CacheFactory

\* a value of process.env in a condition: unset and the empty string are falsy
EnvTruthy(value) == value # Undefined /\ value # ""

autoByFunctionName(e) ==
  IF EnvTruthy(e.AWS_LAMBDA_FUNCTION_NAME) THEN "LambdaCache" ELSE "MemoryCache"

\* CacheFactory.auto: the class of the cache it constructs
auto(e) ==
  IF EnvTruthy(e.AWS_LAMBDA_FUNCTION_NAME) \/ EnvTruthy(e.LAMBDA_RUNTIME_DIR)
    THEN "LambdaCache" ELSE "MemoryCache"

\* the options as the MemoryCache constructor completes them
memoryOptionsOf(o) ==
  [maxSize |-> o.maxSize, evictionPolicy |-> o.evictionPolicy, ttl |-> <<>>,
   autoCleanup |-> TRUE]

\* the options as the LambdaCache constructor completes them
lambdaOptionsOf(o) ==
  [namespace |-> <<"l", "a", "m", "b", "d", "a">>, useGlobalContext |-> TRUE,
   maxSize |-> o.maxSize, evictionPolicy |-> o.evictionPolicy, ttl |-> <<>>,
   cleanupInterval |-> LambdaDefaultCleanupInterval]

\* ------------------------------------------------------------ CacheManager

\* A tier is a CacheAdapter: a MemoryCache with its options o and its fields
\* s, or an adapter of another kind whose set rejects and which holds
\* nothing.  The source counts tiers from 0, a sequence from 1: the tier of
\* index i in the source is caches[i + 1].

\* the error a rejecting adapter raises
TierError(i) == <<i - 1>>

\* cache.get(key) on a tier
tierGet(c, key, t) ==
  IF c.kind = "MemoryCache"
    THEN LET r == get(c.s, key, t) IN [c |-> [c EXCEPT !.s = r.s], value |-> r.value]
    ELSE [c |-> c, value |-> Null]

\* cache.set(key, value, options) on a tier; options is <<>> when not given
tierSet(c, key, value, ttlOption, t) ==
  IF c.kind = "MemoryCache"
    THEN [c |-> [c EXCEPT !.s = set(c.s, c.o, key, value, ttlOption, t)],
          rejected |-> FALSE]
    ELSE [c |-> c, rejected |-> TRUE]

\* cache.delete(key) on a tier
tierDelete(c, key) ==
  IF c.kind = "MemoryCache"
    THEN LET r == delete(c.s, key) IN [c |-> [c EXCEPT !.s = r.s], deleted |-> r.deleted]
    ELSE [c |-> c, deleted |-> FALSE]

\* cache.has(key) on a tier
tierHas(c, key, t) ==
  IF c.kind = "MemoryCache"
    THEN LET r == has(c.s, key, t) IN [c |-> [c EXCEPT !.s = r.s], found |-> r.found]
    ELSE [c |-> c, found |-> FALSE]

\* the tiers that reject among the first n
Rejecting(cs, n) == {j \in 1..n : cs[j].kind # "MemoryCache"}

\* the outcome of Promise.all over calls on the first n tiers: the error of
\* the first of them that rejected, <<>> when none did
allSettled(cs, n) ==
  IF Rejecting(cs, n) = {} THEN <<>>
  ELSE TierError(CHOOSE j \in Rejecting(cs, n) : \A k \in Rejecting(cs, n) : j <= k)

propagateUpToAll(cs, key, value, fromLevel, t) ==
  [caches |-> [j \in 1..Len(cs) |->
                 IF j # fromLevel THEN tierSet(cs[j], key, value, <<>>, t).c
                 ELSE cs[j]],
   error |-> allSettled(cs, Len(cs))]

\* propagateUp: set(key, value) on every tier before fromLevel, all awaited
propagateUp(cs, key, value, fromLevel, t) ==
  [caches |-> [j \in 1..Len(cs) |->
                 IF j < fromLevel THEN tierSet(cs[j], key, value, <<>>, t).c
                 ELSE cs[j]],
   error |-> allSettled(cs, fromLevel - 1)]

\* get, lines 67-83: the loop from tier i on.  level is the tier that hit, 0
\* when none did; error is <<>> unless the call rejects
RECURSIVE probe(_, _, _, _, _)
probe(cs, ms, i, key, t) ==
  IF i > Len(cs)
    THEN [caches |-> cs, stats |-> [ms EXCEPT !.misses = @ + 1], value |-> Null,
          level |-> 0, error |-> <<>>]
    ELSE LET r == tierGet(cs[i], key, t)
             cs1 == [cs EXCEPT ![i] = r.c]
         IN IF r.value # Null
              THEN LET p == IF i > 1 THEN propagateUp(cs1, key, r.value, i, t)
                            ELSE [caches |-> cs1, error |-> <<>>]
                   IN IF p.error # <<>>
                        THEN [caches |-> p.caches, stats |-> ms, value |-> Undefined,
                              level |-> i, error |-> p.error]
                        ELSE [caches |-> p.caches,
                              stats |-> IF i = 1 THEN [ms EXCEPT !.l1Hits = @ + 1]
                                        ELSE IF i = 2 THEN [ms EXCEPT !.l2Hits = @ + 1]
                                        ELSE ms,
                              value |-> r.value, level |-> i, error |-> <<>>]
              ELSE probe(cs1, ms, i + 1, key, t)

\* CacheManager.get
managerGet(cs, ms, key, t) ==
  probe(cs, [ms EXCEPT !.totalRequests = @ + 1], 1, key, t)

managerSetUndoing(cs, key, value, ttlOption, t) ==
  [caches |-> IF allSettled(cs, Len(cs)) # <<>> THEN cs
              ELSE [j \in 1..Len(cs) |-> tierSet(cs[j], key, value, ttlOption, t).c],
   error |-> allSettled(cs, Len(cs))]

\* CacheManager.set: one set per tier, all awaited
managerSet(cs, key, value, ttlOption, t) ==
  [caches |-> [j \in 1..Len(cs) |-> tierSet(cs[j], key, value, ttlOption, t).c],
   error |-> allSettled(cs, Len(cs))]

managerDeleteIfAll(cs, key) ==
  [caches |-> [j \in 1..Len(cs) |-> tierDelete(cs[j], key).c],
   deleted |-> \A j \in 1..Len(cs) : tierDelete(cs[j], key).deleted]

\* CacheManager.delete: one delete per tier, all awaited
managerDelete(cs, key) ==
  [caches |-> [j \in 1..Len(cs) |-> tierDelete(cs[j], key).c],
   deleted |-> \E j \in 1..Len(cs) : tierDelete(cs[j], key).deleted]

\* CacheManager.has: the loop from tier i on
RECURSIVE managerHasFrom(_, _, _, _)
managerHasFrom(cs, i, key, t) ==
  IF i > Len(cs) THEN [caches |-> cs, found |-> FALSE]
  ELSE LET r == tierHas(cs[i], key, t)
           cs1 == [cs EXCEPT ![i] = r.c]
       IN IF r.found THEN [caches |-> cs1, found |-> TRUE]
          ELSE managerHasFrom(cs1, i + 1, key, t)

\* CacheManager.has
managerHas(cs, key, t) == managerHasFrom(cs, 1, key, t)

\* CacheManager.stats, lines 140-152: the manager part of the object
\* returned, each rate as the pair numerator, denominator (0 over 1 when
\* there was no request)
managerRates(ms) ==
  LET totalRequests == ms.totalRequests
      rate(n) == IF totalRequests > 0 THEN <<n, totalRequests>> ELSE <<0, 1>>
  IN [totalRequests |-> totalRequests,
      l1HitRate |-> rate(ms.l1Hits),
      l2HitRate |-> rate(ms.l2Hits),
      missRate |-> rate(ms.misses),
      overallHitRate |-> rate(ms.l1Hits + ms.l2Hits)]

\* CacheManager.stats: the tiers after stats() swept each, and the object
\* returned (<<>> when stats() of a tier rejects)
managerStatsOf(cs, ms, t) ==
  LET each == [j \in 1..Len(cs) |->
                 IF cs[j].kind = "MemoryCache" THEN statsOf(cs[j].s, t)
                 ELSE [s |-> cs[j].s,
                       result |-> <<[size |-> 0, hits |-> 0, misses |-> 0,
                                     hitRate |-> 0, memoryUsage |-> 0]>>]]
  IN [caches |-> [j \in 1..Len(cs) |-> [cs[j] EXCEPT !.s = each[j].s]],
      result |-> IF \E j \in 1..Len(cs) : each[j].result = <<>> THEN <<>>
                 ELSE <<[manager |-> managerRates(ms),
                         caches |-> [j \in 1..Len(cs) |->
                                       [level |-> j, stats |-> each[j].result[1]]]]>>]

\* ------------------------------------------------------------ wrapWithCache

\* JSON.stringify of one element of an array: a string in its quotes,
\* null for null and for undefined
stringifyElement(value) ==
  IF value \in {Null, Undefined} THEN "null" ELSE "\"" \o value \o "\""

\* JSON.stringify(args) of the arguments of a call
RECURSIVE stringifyElements(_)
stringifyElements(args) ==
  IF args = <<>> THEN ""
  ELSE IF Len(args) = 1 THEN stringifyElement(args[1])
  ELSE stringifyElement(args[1]) \o "," \o stringifyElements(Tail(args))

stringifyArgs(args) == "[" \o stringifyElements(args) \o "]"

\* the default key generator, lines 188-190, of a function named name
\* wrapped with options w
keyGen(w, name, args) ==
  (IF w.namespace # "" THEN w.namespace ELSE "fn") \o ":" \o name \o ":"
     \o stringifyArgs(args)

\* a variant that stores a result only if it is truthy
wrappedFnStoringTruthy(s, o, w, name, args, outcome, t) ==
  LET cacheKey == keyGen(w, name, args)
      cached == get(s, cacheKey, t)
  IN IF cached.value # Null
       THEN [s |-> cached.s, key |-> cacheKey, ran |-> FALSE, resolved |-> TRUE,
             value |-> cached.value]
       ELSE IF outcome.throws
         THEN [s |-> cached.s, key |-> cacheKey, ran |-> TRUE, resolved |-> FALSE,
               value |-> outcome.value]
         ELSE [s |-> IF outcome.value \notin {Null, Undefined} \cup FalsyResults
                       THEN set(cached.s, o, cacheKey, outcome.value, w.ttl, t)
                       ELSE cached.s,
               key |-> cacheKey, ran |-> TRUE, resolved |-> TRUE,
               value |-> outcome.value]

\* wrappedFn, lines 186-208, awaited by its caller: the cache after the
\* call, the key, whether fn ran, whether the call resolved, and the value it
\* resolved to or the error it rejected with.  outcome is what fn does if
\* it runs: the value it resolves to or the error it throws.
wrappedFn(s, o, w, name, args, outcome, t) ==
  LET cacheKey == keyGen(w, name, args)
      cached == get(s, cacheKey, t)
  IN IF cached.value # Null
       THEN [s |-> cached.s, key |-> cacheKey, ran |-> FALSE, resolved |-> TRUE,
             value |-> cached.value]
       ELSE IF outcome.throws
         THEN [s |-> cached.s, key |-> cacheKey, ran |-> TRUE, resolved |-> FALSE,
               value |-> outcome.value]
         ELSE [s |-> IF outcome.value # Null /\ outcome.value # Undefined
                       THEN set(cached.s, o, cacheKey, outcome.value, w.ttl, t)
                       ELSE cached.s,
               key |-> cacheKey, ran |-> TRUE, resolved |-> TRUE,
               value |-> outcome.value]

\* wrappedFn up to its second await, lines 186-200: the key is computed and
\* the cache is read as the call is made; on a miss the call goes on to
\* invoke fn and awaits it
wrappedStart(s, w, name, args, t) ==
  LET cacheKey == keyGen(w, name, args)
      cached == get(s, cacheKey, t)
  IN [s |-> cached.s, key |-> cacheKey, hit |-> cached.value # Null,
      value |-> cached.value]

\* a variant that leaves the entry another call has stored in place
wrappedSettleKeepingFirst(s, o, w, cacheKey, outcome, t) ==
  IF outcome.throws
    THEN [s |-> s, resolved |-> FALSE, value |-> outcome.value]
    ELSE [s |-> IF outcome.value # Null /\ outcome.value # Undefined
                     /\ ~MapHas(s.store, cacheKey)
                  THEN set(s, o, cacheKey, outcome.value, w.ttl, t)
                  ELSE s,
          resolved |-> TRUE, value |-> outcome.value]

\* wrappedFn from the moment fn settles, lines 200-207: a rejection of fn
\* rejects the call, a result that is neither null nor undefined is stored,
\* and the call resolves to the result
wrappedSettle(s, o, w, cacheKey, outcome, t) ==
  IF outcome.throws
    THEN [s |-> s, resolved |-> FALSE, value |-> outcome.value]
    ELSE [s |-> IF outcome.value # Null /\ outcome.value # Undefined
                  THEN set(s, o, cacheKey, outcome.value, w.ttl, t)
                  ELSE s,
          resolved |-> TRUE, value |-> outcome.value]

\* ------------------------------------------------------------ history

Touch(r, key) == Append(SelectSeq(r, LAMBDA k : k # key), key)
Keep(r, m) == SelectSeq(r, LAMBDA k : MapHas(m, k))

\* options.ttl ?? this.options.ttl
effectiveTtl(ttlOption, o) == IF ttlOption # <<>> THEN ttlOption ELSE o.ttl

\* the keys that left the store are forgotten, key is recorded
Record(w, before, after, key, value, ttl, t) ==
  [k \in AllKeys |->
     IF k = key THEN <<[value |-> value, at |-> t, ttl |-> ttl]>>
     ELSE IF k \in MapKeys(before) \ MapKeys(after) THEN <<>>
     ELSE w[k]]

Become(s) ==
  /\ store' = s.store
  /\ accessOrder' = s.accessOrder
  /\ stats' = s.stats
  /\ accessCounter' = s.accessCounter

Returned(op, key, value, ok) ==
  ret' = [op |-> op, key |-> key, value |-> value, ok |-> ok]

\* ------------------------------------------------------------ behaviour

ZeroManagerStats == [totalRequests |-> 0, l1Hits |-> 0, l2Hits |-> 0, misses |-> 0]

\* neither environment variable is set, there is no manager and no wrapped
\* function has been called
Idle ==
  /\ env = [AWS_LAMBDA_FUNCTION_NAME |-> Undefined, LAMBDA_RUNTIME_DIR |-> Undefined]
  /\ caches = <<>>
  /\ managerStats = ZeroManagerStats
  /\ invoked = <<>>
  /\ running = <<>>

\* new MemoryCache(options), for the options of a set of configurations
Constructed(configurations) ==
  /\ options \in configurations
  /\ store = <<>>
  /\ accessOrder = <<>>
  /\ stats = ZeroStats
  /\ accessCounter = 0
  /\ cleanupTimer = options.autoCleanup
  /\ now = 0
  /\ pending = <<>>
  /\ ret = [op |-> "new", key |-> NoKey, value |-> Undefined, ok |-> TRUE]
  /\ written = [k \in AllKeys |-> <<>>]
  /\ recency = <<>>
  /\ globalStore = <<>>
  /\ globalAccessOrder = <<>>
  /\ globalAccessCounter = 0
  /\ invocationCount = 0
  /\ instances = <<>>
  /\ calls = 0
  /\ Idle

\* await cache.get(key)
Get(key) ==
  /\ pending = <<>>
  /\ Work(This) < MaxOps
  /\ LET r == get(This, key, now) IN
       /\ Become(r.s)
       /\ Returned("get", key, r.value, r.hit)
       /\ recency' = IF r.hit THEN Touch(recency, key) ELSE Keep(recency, r.s.store)
  /\ UNCHANGED <<lambdaVars, serviceVars, options, cleanupTimer, now, pending, written>>

\* await cache.set(key, value, { ttl })
Set(key, value, ttlOption) ==
  /\ pending = <<>>
  /\ Work(This) < MaxOps
  /\ LET s == set(This, options, key, value, ttlOption, now) IN
       /\ Become(s)
       /\ Returned("set", key, Undefined, TRUE)
       /\ written' = Record(written, store, s.store, key, value,
                            effectiveTtl(ttlOption, options), now)
       /\ recency' = Touch(Keep(recency, s.store), key)
  /\ UNCHANGED <<lambdaVars, serviceVars, options, cleanupTimer, now, pending>>

\* await cache.delete(key)
Delete(key) ==
  /\ pending = <<>>
  /\ Work(This) < MaxOps
  /\ LET r == delete(This, key) IN
       /\ Become(r.s)
       /\ Returned("delete", key, Undefined, r.deleted)
       /\ written' = [written EXCEPT ![key] = <<>>]
       /\ recency' = Keep(recency, r.s.store)
  /\ UNCHANGED <<lambdaVars, serviceVars, options, cleanupTimer, now, pending>>

\* await cache.has(key)
Has(key) ==
  /\ pending = <<>>
  /\ LET r == has(This, key, now) IN
       /\ Become(r.s)
       /\ Returned("has", key, Undefined, r.found)
       /\ recency' = Keep(recency, r.s.store)
  /\ UNCHANGED <<lambdaVars, serviceVars, options, cleanupTimer, now, pending, written>>

\* await cache.clear(); ret.value is the number of entries the call removed
Clear ==
  /\ pending = <<>>
  /\ Become(clear(This))
  /\ Returned("clear", NoKey, Len(store), TRUE)
  /\ written' = [k \in AllKeys |-> <<>>]
  /\ recency' = <<>>
  /\ UNCHANGED <<lambdaVars, serviceVars, options, cleanupTimer, now, pending>>

\* await cache.stats(): ok is false when the call rejects
Stats ==
  /\ pending = <<>>
  /\ LET r == statsOf(This, now) IN
       /\ Become(r.s)
       /\ Returned("stats", NoKey, r.result, r.result # <<>>)
       /\ recency' = Keep(recency, r.s.store)
  /\ UNCHANGED <<lambdaVars, serviceVars, options, cleanupTimer, now, pending, written>>

\* await cache.mset(entries); ret.value is the map that was given
MSet(entries) ==
  /\ pending = <<>>
  /\ Work(This) + Len(entries) <= MaxOps
  /\ LET s == mset(This, options, entries, <<>>, now)
         given == {entries[i].key : i \in 1..Len(entries)}
         valueOf(k) == entries[CHOOSE i \in 1..Len(entries) : entries[i].key = k].value
     IN
       /\ Become(s)
       /\ Returned("mset", NoKey, entries, TRUE)
       /\ written' = [k \in AllKeys |->
                        IF k \in given
                          THEN IF MapHas(s.store, k)
                                 THEN <<[value |-> valueOf(k), at |-> now,
                                         ttl |-> options.ttl]>>
                                 ELSE <<>>
                          ELSE IF k \in MapKeys(store) \ MapKeys(s.store) THEN <<>>
                          ELSE written[k]]
       /\ recency' = LET order == SortSeq(s.accessOrder, LAMBDA a, b : a.n < b.n)
                     IN [i \in 1..Len(order) |-> order[i].key]
  /\ UNCHANGED <<lambdaVars, serviceVars, options, cleanupTimer, now, pending>>

\* the interval timer of startCleanupTimer fires
Sweep ==
  /\ pending = <<>>
  /\ cleanupTimer
  /\ LET s == cleanupExpired(This, now) IN
       /\ Become(s)
       /\ recency' = Keep(recency, s.store)
  /\ Returned("sweep", NoKey, Undefined, TRUE)
  /\ UNCHANGED <<lambdaVars, serviceVars, options, cleanupTimer, now, pending, written>>

\* cache.destroy(); ret.ok is whether the call had a timer to clear
Destroy ==
  /\ pending = <<>>
  /\ cleanupTimer' = destroy(cleanupTimer)
  /\ Returned("destroy", NoKey, Undefined, cleanupTimer)
  /\ UNCHANGED <<lambdaVars, serviceVars, options, store, accessOrder, stats, accessCounter, now, pending,
                 written, recency>>

\* time passes between two calls
Tick ==
  /\ \E t \in Instants : t > now /\ now' = t
  /\ ret' = [op |-> "tick", key |-> NoKey, value |-> Undefined, ok |-> TRUE]
  /\ UNCHANGED <<lambdaVars, serviceVars, options, store, accessOrder, stats, accessCounter, cleanupTimer,
                 pending, written, recency>>

\* the calls a caller awaits one by one, with keys and set arguments drawn
\* from the given sets
Calls(keys, setCalls) ==
  \/ \E key \in keys : Get(key)
  \/ \E key \in keys, call \in setCalls : Set(key, call[1], call[2])
  \/ \E key \in keys : Delete(key)
  \/ \E key \in keys : Has(key)
  \/ Clear
  \/ Stats
  \/ Sweep
  \/ Tick

\* Eviction and bookkeeping: every policy and maxSize, entries that expire
\* after one second.
Init ==
  Constructed([maxSize : 1..MaxSize, evictionPolicy : Policies,
               ttl : {<<>>}, autoCleanup : {TRUE}])

Next == Calls(Keys, {<<"v1", <<1>> >>})

Spec == Init /\ [][Next]_vars

\* Expiry: every ttl a set call or the constructor can give, in a cache of
\* one entry.
InitTtl ==
  Constructed([maxSize : {1}, evictionPolicy : {"lru"},
               ttl : {<<>>, <<1>>}, autoCleanup : {TRUE}])

NextTtl == Calls({"k1", "k2"}, {<<"v1", ttlOption>> : ttlOption \in TtlOptions})

SpecTtl == InitTtl /\ [][NextTtl]_vars

\* Values: undefined and null, without expiry.
InitValues ==
  Constructed([maxSize : {MaxSize}, evictionPolicy : {"lru"},
               ttl : {<<>>}, autoCleanup : {TRUE}])

NextValues == Calls({"k1", "k2", "k3"}, {<<Undefined, <<>> >>, <<Null, <<>> >>})

SpecValues == InitValues /\ [][NextValues]_vars

\* Teardown: caches with and without the background sweep, entries that
\* expire after one second.
InitDestroy ==
  Constructed([maxSize : {1}, evictionPolicy : {"lru"},
               ttl : {<<1>>}, autoCleanup : BOOLEAN])

NextDestroy ==
  \/ Calls({"k1", "k2"}, {<<"v1", <<>> >>})
  \/ Destroy

SpecDestroy == InitDestroy /\ [][NextDestroy]_vars

\* Batches: mset of up to MaxBatch entries among single calls, in a store
\* that the batch can fill.
BatchKeys == {"k1", "k2", "k3"}

\* Map<string, T> in iteration order: the keys are distinct
BatchEntries ==
  {entries \in UNION {[1..n -> [key : BatchKeys, value : {"v1"}]] : n \in 1..MaxBatch} :
     \A i, j \in 1..Len(entries) : i # j => entries[i].key # entries[j].key}

InitBatch ==
  Constructed([maxSize : 1..MaxSize, evictionPolicy : {"lru"},
               ttl : {<<>>}, autoCleanup : {TRUE}])

NextBatch ==
  \/ Calls(BatchKeys, {<<"v2", <<>> >>})
  \/ \E entries \in BatchEntries : MSet(entries)

SpecBatch == InitBatch /\ [][NextBatch]_vars

\* ------------------------------------------------------------ fan-out

\* cache.set(key, value) is called and not awaited: the call runs up to its
\* first await.  It suspends at `await this.evictLeastUsed()` when the store
\* is full, and runs to its end otherwise.  The key is new: no set was called
\* for it before.
SetStart(key, value) ==
  /\ ~MapHas(store, key)
  /\ written[key] = <<>>
  /\ Len(pending) < MaxPending
  /\ stats.sets + Len(pending) < MaxOps
  /\ written' = [written EXCEPT
                   ![key] = <<[value |-> value, at |-> now, ttl |-> options.ttl]>>]
  /\ IF mustEvict(This, options, key)
       THEN LET e == evictLeastUsedStart(This, options) IN
            /\ Become(e.s)
            /\ pending' = Append(pending,
                 [stage |-> IF e.awaiting THEN "evictLeastUsed" ELSE "set",
                  key |-> key, value |-> value,
                  expiresAt |-> expiresAtOf(<<>>, options, now), now |-> now])
            /\ recency' = Keep(recency, e.s.store)
            /\ UNCHANGED ret
       ELSE /\ Become(insert(This, key, value, expiresAtOf(<<>>, options, now), now))
            /\ recency' = Touch(recency, key)
            /\ Returned("set", key, Undefined, TRUE)
            /\ UNCHANGED pending
  /\ UNCHANGED <<lambdaVars, serviceVars, options, cleanupTimer, now>>

\* the runtime runs the first continuation of the microtask queue:
\* evictLeastUsed after its await (the set call that awaits it is queued
\* behind), or set after its await
Microtask ==
  /\ pending # <<>>
  /\ LET c == Head(pending) IN
       IF c.stage = "evictLeastUsed"
         THEN /\ Become(evictLeastUsedResume(This))
              /\ pending' = Append(Tail(pending), [c EXCEPT !.stage = "set"])
              /\ UNCHANGED <<ret, recency>>
         ELSE /\ Become(insert(This, c.key, c.value, c.expiresAt, c.now))
              /\ pending' = Tail(pending)
              /\ recency' = Touch(recency, c.key)
              /\ Returned("set", c.key, Undefined, TRUE)
  /\ UNCHANGED <<lambdaVars, serviceVars, options, cleanupTimer, now, written>>

InitFanOut ==
  Constructed([maxSize : 1..MaxSize, evictionPolicy : Policies,
               ttl : {<<>>}, autoCleanup : {TRUE}])

NextFanOut ==
  \/ \E key \in FanOutKeys, value \in FanOutValues : SetStart(key, value)
  \/ Microtask

SpecFanOut == InitFanOut /\ [][NextFanOut]_vars

\* ------------------------------------------------------------ LambdaCache calls

\* the static fields as the constructor reads them
Global ==
  [store |-> globalStore, accessOrder |-> globalAccessOrder,
   accessCounter |-> globalAccessCounter, invocationCount |-> invocationCount]

\* instance i as if every instance kept a store of its own
SelfOwnStore(i) ==
  LET this == instances[i]
  IN [options |-> this.options,
      store |-> this.store,
      accessOrder |-> this.accessOrder,
      accessCounter |-> this.accessCounter,
      stats |-> this.stats,
      lastCleanup |-> this.lastCleanup,
      globalAccessCounter |-> globalAccessCounter,
      invocationCount |-> invocationCount]

\* instance i as its methods see it
Self(i) ==
  LET this == instances[i]
      shared == this.options.useGlobalContext
  IN [options |-> this.options,
      store |-> IF shared THEN globalStore ELSE this.store,
      accessOrder |-> IF shared THEN globalAccessOrder ELSE this.accessOrder,
      accessCounter |-> this.accessCounter,
      stats |-> this.stats,
      lastCleanup |-> this.lastCleanup,
      globalAccessCounter |-> globalAccessCounter,
      invocationCount |-> invocationCount]

\* the fields an instance owns; those of a sharing instance that refer to
\* the static maps are left empty here
Fields(l) ==
  [options |-> l.options,
   store |-> IF l.options.useGlobalContext THEN <<>> ELSE l.store,
   accessOrder |-> IF l.options.useGlobalContext THEN <<>> ELSE l.accessOrder,
   accessCounter |-> l.accessCounter,
   stats |-> l.stats,
   lastCleanup |-> l.lastCleanup]

\* what a method of an instance leaves in the static fields
Statics(l) ==
  /\ globalStore' = IF l.options.useGlobalContext THEN l.store ELSE globalStore
  /\ globalAccessOrder' =
       IF l.options.useGlobalContext THEN l.accessOrder ELSE globalAccessOrder
  /\ globalAccessCounter' = l.globalAccessCounter
  /\ invocationCount' = l.invocationCount

LambdaBecome(i, l) ==
  /\ instances' = [instances EXCEPT ![i] = Fields(l)]
  /\ Statics(l)

\* the last call: the instance it was made on, its name, its key (the empty
\* string when it takes none) and what it returned
LambdaReturned(i, op, key, value, ok) ==
  ret' = [op |-> op, key |-> key, value |-> value, ok |-> ok, by |-> i]

\* the MemoryCache of the process is not called
memoryVars ==
  <<options, store, accessOrder, stats, accessCounter, cleanupTimer, pending,
    written, recency>>

\* new LambdaCache(o)
Construct(o) ==
  /\ Len(instances) < MaxInstances
  /\ LET l == lambdaConstructor(o, Global, now) IN
       /\ instances' = Append(instances, Fields(l))
       /\ Statics(l)
  /\ LambdaReturned(Len(instances) + 1, "new", <<>>, Undefined, TRUE)
  /\ UNCHANGED <<memoryVars, serviceVars, now, calls>>

\* await instance.get(key)
LambdaGet(i, key) ==
  /\ calls < MaxOps
  /\ calls' = calls + 1
  /\ LET r == lambdaGet(Self(i), key, now) IN
       /\ LambdaBecome(i, r.l)
       /\ LambdaReturned(i, "get", key, r.value, r.hit)
  /\ UNCHANGED <<memoryVars, serviceVars, now>>

\* await instance.set(key, value, { ttl })
LambdaSet(i, key, value, ttlOption) ==
  /\ calls < MaxOps
  /\ calls' = calls + 1
  /\ LambdaBecome(i, lambdaSet(Self(i), key, value, ttlOption, now))
  /\ LambdaReturned(i, "set", key, value, TRUE)
  /\ UNCHANGED <<memoryVars, serviceVars, now>>

\* await instance.delete(key)
LambdaDelete(i, key) ==
  /\ calls < MaxOps
  /\ calls' = calls + 1
  /\ LET r == lambdaDelete(Self(i), key) IN
       /\ LambdaBecome(i, r.l)
       /\ LambdaReturned(i, "delete", key, Undefined, r.deleted)
  /\ UNCHANGED <<memoryVars, serviceVars, now>>

\* await instance.has(key)
LambdaHas(i, key) ==
  /\ LET r == lambdaHas(Self(i), key, now) IN
       /\ LambdaBecome(i, r.l)
       /\ LambdaReturned(i, "has", key, Undefined, r.found)
  /\ UNCHANGED <<memoryVars, serviceVars, now, calls>>

\* await instance.clear()
LambdaClear(i) ==
  /\ LambdaBecome(i, lambdaClear(Self(i)))
  /\ LambdaReturned(i, "clear", <<>>, Undefined, TRUE)
  /\ UNCHANGED <<memoryVars, serviceVars, now, calls>>

\* await instance.stats()
LambdaStats(i) ==
  /\ LET r == lambdaStats(Self(i), now) IN
       /\ LambdaBecome(i, r.l)
       /\ LambdaReturned(i, "stats", <<>>, r.result, TRUE)
  /\ UNCHANGED <<memoryVars, serviceVars, now, calls>>

\* instance.getLambdaContext()
GetLambdaContext(i) ==
  /\ LambdaReturned(i, "getLambdaContext", <<>>, getLambdaContext(Self(i)), TRUE)
  /\ UNCHANGED <<memoryVars, serviceVars, lambdaVars, now>>

\* await instance.cleanupByMemoryPressure(targetSize); ret.value is the
\* targetSize given and the number returned
CleanupByMemoryPressure(i, targetSize) ==
  /\ LET r == cleanupByMemoryPressure(Self(i), targetSize) IN
       /\ LambdaBecome(i, r.l)
       /\ LambdaReturned(i, "cleanupByMemoryPressure", <<>>,
                         [targetSize |-> targetSize, cleaned |-> r.cleaned], TRUE)
  /\ UNCHANGED <<memoryVars, serviceVars, now, calls>>

\* await instance.prepareColdStart()
PrepareColdStart(i) ==
  /\ LambdaBecome(i, prepareColdStart(Self(i), now))
  /\ LambdaReturned(i, "prepareColdStart", <<>>, Undefined, TRUE)
  /\ UNCHANGED <<memoryVars, serviceVars, now, calls>>

\* time passes between two calls, up to one of the given instants
LambdaTick(instants) ==
  /\ \E t \in instants : t > now /\ now' = t
  /\ LambdaReturned(0, "tick", <<>>, Undefined, TRUE)
  /\ UNCHANGED <<memoryVars, serviceVars, lambdaVars>>

\* the MemoryCache of the process, constructed and not called
Unused ==
  /\ options = [maxSize |-> 1, evictionPolicy |-> "lru", ttl |-> <<>>,
                autoCleanup |-> FALSE]
  /\ store = <<>>
  /\ accessOrder = <<>>
  /\ stats = ZeroStats
  /\ accessCounter = 0
  /\ cleanupTimer = FALSE
  /\ now = 0
  /\ pending = <<>>
  /\ ret = [op |-> "new", key |-> <<>>, value |-> Undefined, ok |-> TRUE, by |-> 0]
  /\ written = [k \in AllKeys |-> <<>>]
  /\ recency = <<>>
  /\ calls = 0

\* the static fields when the class is loaded
Loaded ==
  [store |-> <<>>, accessOrder |-> <<>>, accessCounter |-> 0, invocationCount |-> 0]

\* the static fields after a constructor call
StaticsOf(l, global) ==
  [store |-> IF l.options.useGlobalContext THEN l.store ELSE global.store,
   accessOrder |-> IF l.options.useGlobalContext THEN l.accessOrder
                   ELSE global.accessOrder,
   accessCounter |-> l.globalAccessCounter,
   invocationCount |-> l.invocationCount]

\* new LambdaCache(first); new LambdaCache(second), at time 0
TwoConstructed(first, second) ==
  LET l1 == lambdaConstructor(first, Loaded, 0)
      g1 == StaticsOf(l1, Loaded)
      l2 == lambdaConstructor(second, g1, 0)
      g2 == StaticsOf(l2, g1)
  IN /\ instances = <<Fields(l1), Fields(l2)>>
     /\ globalStore = g2.store
     /\ globalAccessOrder = g2.accessOrder
     /\ globalAccessCounter = g2.accessCounter
     /\ invocationCount = g2.invocationCount

LambdaOptions(namespace, sharing, policy) ==
  [namespace |-> namespace, useGlobalContext |-> sharing, maxSize |-> MaxSize,
   evictionPolicy |-> policy, ttl |-> <<>>,
   cleanupInterval |-> LambdaDefaultCleanupInterval]

\* new LambdaCache(first), at time 0
OneConstructed(first) ==
  LET l1 == lambdaConstructor(first, Loaded, 0)
      g1 == StaticsOf(l1, Loaded)
  IN /\ instances = <<Fields(l1)>>
     /\ globalStore = g1.store
     /\ globalAccessOrder = g1.accessOrder
     /\ globalAccessCounter = g1.accessCounter
     /\ invocationCount = g1.invocationCount

\* two instances that share the static store under the same policy, the
\* namespace of the first a prefix of the namespace of the second
InitLambda ==
  /\ Unused
  /\ Idle
  /\ \E policy \in Policies :
       TwoConstructed(LambdaOptions(<<"a">>, TRUE, policy),
                      LambdaOptions(<<"a", ":", "b">>, TRUE, policy))

LambdaKeys == {<<"x">>, <<"y">>}

\* Eviction and cleanup in the shared store: entries that expire after one
\* second, read before and after they expire.
NextLambda ==
  \/ \E i \in 1..Len(instances), key \in LambdaKeys : LambdaGet(i, key)
  \/ \E i \in 1..Len(instances), key \in LambdaKeys : LambdaSet(i, key, "v1", <<1>>)
  \/ \E i \in 1..Len(instances) : LambdaClear(i)
  \/ \E i \in 1..Len(instances) : LambdaStats(i)
  \/ \E i \in 1..Len(instances) : CleanupByMemoryPressure(i, <<>>)
  \/ \E i \in 1..Len(instances) : PrepareColdStart(i)
  \/ LambdaTick({MaxNow})

SpecLambda == InitLambda /\ [][NextLambda]_vars

\* Memory pressure: one instance, with or without sharing, cleaned down to
\* a target that is given or not.
InitPressure ==
  /\ Unused
  /\ Idle
  /\ \E sharing \in BOOLEAN, policy \in Policies :
       OneConstructed(LambdaOptions(<<"a">>, sharing, policy))

TargetSizes == {<<>>} \cup {<<n>> : n \in 0..MaxSize}

NextPressure ==
  \/ \E key \in LambdaKeys : LambdaGet(1, key)
  \/ \E key \in LambdaKeys : LambdaSet(1, key, "v1", <<>>)
  \/ \E key \in LambdaKeys : LambdaDelete(1, key)
  \/ \E targetSize \in TargetSizes : CleanupByMemoryPressure(1, targetSize)

SpecPressure == InitPressure /\ [][NextPressure]_vars

\* Reads and writes in the shared store: keys with and without a colon,
\* a value per writer, no expiry.
NamespaceKeys == {<<"x">>, <<"b", ":", "x">>}

NextNamespaces ==
  \/ \E i \in 1..Len(instances), key \in NamespaceKeys : LambdaGet(i, key)
  \/ \E i \in 1..Len(instances), key \in NamespaceKeys, value \in {"v1", "v2"} :
       LambdaSet(i, key, value, <<>>)
  \/ \E i \in 1..Len(instances), key \in NamespaceKeys : LambdaDelete(i, key)
  \/ \E i \in 1..Len(instances), key \in NamespaceKeys : LambdaHas(i, key)

SpecNamespaces == InitLambda /\ [][NextNamespaces]_vars

\* Constructions: instances with and without sharing, built one after the
\* other among a few calls.
NoInstance ==
  /\ instances = <<>>
  /\ globalStore = Loaded.store
  /\ globalAccessOrder = Loaded.accessOrder
  /\ globalAccessCounter = Loaded.accessCounter
  /\ invocationCount = Loaded.invocationCount

InitStarts ==
  /\ Unused
  /\ Idle
  /\ NoInstance

NextStarts ==
  \/ \E sharing \in BOOLEAN : Construct(LambdaOptions(<<"a">>, sharing, "lru"))
  \/ \E i \in 1..Len(instances) : LambdaSet(i, <<"x">>, "v1", <<>>)
  \/ \E i \in 1..Len(instances) : LambdaClear(i)
  \/ \E i \in 1..Len(instances) : LambdaStats(i)
  \/ \E i \in 1..Len(instances) : GetLambdaContext(i)

SpecStarts == InitStarts /\ [][NextStarts]_vars

\* Reuse: instances of two namespaces, with and without sharing, built
\* among writes that expire after one second and reads before and after.
ReuseNamespaces == {<<"a">>, <<"c">>}

NextReuse ==
  \/ \E namespace \in ReuseNamespaces, sharing \in BOOLEAN :
       Construct(LambdaOptions(namespace, sharing, "lru"))
  \/ \E i \in 1..Len(instances) : LambdaSet(i, <<"x">>, "v1", <<1>>)
  \/ \E i \in 1..Len(instances) : LambdaGet(i, <<"x">>)
  \/ LambdaTick({MaxNow})

SpecReuse == InitStarts /\ [][NextReuse]_vars

\* Capacity: two instances that share the static store under namespaces of
\* which neither is a prefix of the other, each written and read under two
\* keys.
InitCapacity ==
  /\ Unused
  /\ Idle
  /\ \E policy \in Policies :
       TwoConstructed(LambdaOptions(<<"a">>, TRUE, policy),
                      LambdaOptions(<<"c">>, TRUE, policy))

NextCapacity ==
  \/ \E i \in 1..Len(instances), key \in LambdaKeys : LambdaGet(i, key)
  \/ \E i \in 1..Len(instances), key \in LambdaKeys : LambdaSet(i, key, "v1", <<>>)
  \/ \E i \in 1..Len(instances), key \in LambdaKeys : LambdaDelete(i, key)

SpecCapacity == InitCapacity /\ [][NextCapacity]_vars

\* ------------------------------------------------------------ CacheFactory calls

EnvNames == {"AWS_LAMBDA_FUNCTION_NAME", "LAMBDA_RUNTIME_DIR"}
EnvValues == {Undefined, "", "fn"}
AutoOptions == [maxSize : 1..MaxSize, evictionPolicy : Policies]

\* process.env[name] = value, or delete process.env[name]
SetEnv(name, value) ==
  /\ env[name] # value
  /\ env' = [env EXCEPT ![name] = value]
  /\ LambdaReturned(0, "env", <<>>, Undefined, TRUE)
  /\ UNCHANGED <<memoryVars, lambdaVars, now, caches, managerStats, invoked, running>>

\* cache = CacheFactory.auto(o): a new LambdaCache, or a new MemoryCache in
\* place of the one the process had
Auto(o) ==
  /\ LambdaReturned(0, "auto", <<>>, auto(env), TRUE)
  /\ IF auto(env) = "LambdaCache"
       THEN /\ Len(instances) < MaxInstances
            /\ LET l == lambdaConstructor(lambdaOptionsOf(o), Global, now) IN
                 /\ instances' = Append(instances, Fields(l))
                 /\ Statics(l)
            /\ UNCHANGED memoryVars
       ELSE /\ options' = memoryOptionsOf(o)
            /\ Become([store |-> <<>>, accessOrder |-> <<>>, stats |-> ZeroStats,
                       accessCounter |-> 0])
            /\ cleanupTimer' = options'.autoCleanup
            /\ UNCHANGED <<pending, written, recency, globalStore, globalAccessOrder,
                           globalAccessCounter, invocationCount, instances>>
  /\ UNCHANGED <<serviceVars, now, calls>>

NextFactory ==
  \/ \E name \in EnvNames, value \in EnvValues : SetEnv(name, value)
  \/ \E o \in AutoOptions : Auto(o)

SpecFactory == InitStarts /\ [][NextFactory]_vars

\* ------------------------------------------------------------ CacheManager calls

\* new MemoryCache(o), as a tier
MemoryTier(o) ==
  [kind |-> "MemoryCache", o |-> o,
   s |-> [store |-> <<>>, accessOrder |-> <<>>, stats |-> ZeroStats,
          accessCounter |-> 0]]

\* an adapter whose set rejects, as a tier
RejectingTier ==
  [kind |-> "Rejecting", o |-> <<>>,
   s |-> [store |-> <<>>, accessOrder |-> <<>>, stats |-> ZeroStats,
          accessCounter |-> 0]]

TierOptions(maxSize) ==
  [maxSize |-> maxSize, evictionPolicy |-> "lru", ttl |-> <<>>, autoCleanup |-> FALSE]

\* new CacheManager(tiers)
Managing(tiers) ==
  /\ Unused
  /\ NoInstance
  /\ env = [AWS_LAMBDA_FUNCTION_NAME |-> Undefined, LAMBDA_RUNTIME_DIR |-> Undefined]
  /\ invoked = <<>>
  /\ running = <<>>
  /\ managerStats = ZeroManagerStats
  /\ caches = tiers

\* what a call on the manager or on one of its tiers leaves alone
managerFrame == <<memoryVars, globalStore, globalAccessOrder, globalAccessCounter,
                  invocationCount, instances, now, env, invoked, running>>

\* the last call: the tier it was made on (0 for the manager), its name, its
\* key, the value it was given or returned, the boolean it returned (for get,
\* set and stats: whether it resolved) and the error it rejected with (<<>>
\* when it did not)
ManagerReturned(i, op, key, value, ok, error) ==
  ret' = [op |-> op, key |-> key, value |-> value, ok |-> ok, by |-> i,
          error |-> error]

\* await caches[i].set(key, value), by the owner of the tier
TierSet(i, key, value) ==
  /\ calls < MaxOps
  /\ calls' = calls + 1
  /\ LET r == tierSet(caches[i], key, value, <<>>, now) IN
       /\ caches' = [caches EXCEPT ![i] = r.c]
       /\ ManagerReturned(i, "set", key, value, ~r.rejected,
                          IF r.rejected THEN TierError(i) ELSE <<>>)
  /\ UNCHANGED <<managerFrame, managerStats>>

\* await manager.get(key)
ManagerGet(key) ==
  /\ calls < MaxOps
  /\ calls' = calls + 1
  /\ LET r == managerGet(caches, managerStats, key, now) IN
       /\ caches' = r.caches
       /\ managerStats' = r.stats
       /\ ManagerReturned(0, "get", key, r.value, r.error = <<>>, r.error)
  /\ UNCHANGED managerFrame

\* await manager.set(key, value, { ttl })
ManagerSet(key, value, ttlOption) ==
  /\ calls < MaxOps
  /\ calls' = calls + 1
  /\ LET r == managerSet(caches, key, value, ttlOption, now) IN
       /\ caches' = r.caches
       /\ ManagerReturned(0, "set", key, value, r.error = <<>>, r.error)
  /\ UNCHANGED <<managerFrame, managerStats>>

\* await manager.delete(key)
ManagerDelete(key) ==
  /\ calls < MaxOps
  /\ calls' = calls + 1
  /\ LET r == managerDelete(caches, key) IN
       /\ caches' = r.caches
       /\ ManagerReturned(0, "delete", key, Undefined, r.deleted, <<>>)
  /\ UNCHANGED <<managerFrame, managerStats>>

\* await manager.has(key)
ManagerHas(key) ==
  /\ LET r == managerHas(caches, key, now) IN
       /\ caches' = r.caches
       /\ ManagerReturned(0, "has", key, Undefined, r.found, <<>>)
  /\ UNCHANGED <<managerFrame, managerStats, calls>>

\* await manager.stats()
ManagerStats ==
  /\ LET r == managerStatsOf(caches, managerStats, now) IN
       /\ caches' = r.caches
       /\ ManagerReturned(0, "stats", NoKey, r.result, r.result # <<>>, <<>>)
  /\ UNCHANGED <<managerFrame, managerStats, calls>>

ManagerKeys == {"k1", "k2"}
ManagerValues == {"v1", Null}

\* Three MemoryCache tiers of one, two and two entries, written one by one
\* and through the manager.
InitManager ==
  Managing(<<MemoryTier(TierOptions(1)), MemoryTier(TierOptions(MaxSize)),
             MemoryTier(TierOptions(MaxSize))>>)

NextManager ==
  \/ \E i \in 1..Len(caches), key \in ManagerKeys, value \in ManagerValues :
       TierSet(i, key, value)
  \/ \E key \in ManagerKeys : ManagerGet(key)
  \/ \E key \in ManagerKeys, value \in ManagerValues :
       ManagerSet(key, value, <<>>)
  \/ \E key \in ManagerKeys : ManagerDelete(key)
  \/ \E key \in ManagerKeys : ManagerHas(key)
  \/ ManagerStats

SpecManager == InitManager /\ [][NextManager]_vars

\* Tiers of which some reject every write, written one by one and through
\* the manager.
InitFailure ==
  \E tiers \in {<<MemoryTier(TierOptions(1)), MemoryTier(TierOptions(MaxSize))>>,
                 <<MemoryTier(TierOptions(1)), RejectingTier,
                   MemoryTier(TierOptions(MaxSize))>>,
                 <<RejectingTier, MemoryTier(TierOptions(1)), RejectingTier>>} :
     Managing(tiers)

NextFailure ==
  \/ \E i \in 1..Len(caches), key \in ManagerKeys : TierSet(i, key, "v1")
  \/ \E key \in ManagerKeys : ManagerGet(key)
  \/ \E key \in ManagerKeys, value \in {"v1", "v2"} : ManagerSet(key, value, <<>>)
  \/ \E key \in ManagerKeys : ManagerDelete(key)

SpecFailure == InitFailure /\ [][NextFailure]_vars

\* time passes between two calls on the manager
ManagerTick ==
  /\ \E t \in Instants : t > now /\ now' = t
  /\ ManagerReturned(0, "tick", NoKey, Undefined, TRUE, <<>>)
  /\ UNCHANGED <<memoryVars, lambdaVars, serviceVars>>

\* Expiry through the tiers: a tier of one entry before a tier of two,
\* neither with a ttl of its own, written through the manager with entries
\* that expire after one second and read before and after they expire.
InitExpiry ==
  Managing(<<MemoryTier(TierOptions(1)), MemoryTier(TierOptions(MaxSize))>>)

NextExpiry ==
  \/ \E key \in ManagerKeys : ManagerGet(key)
  \/ \E key \in ManagerKeys, value \in {"v1", "v2"} : ManagerSet(key, value, <<1>>)
  \/ ManagerTick

SpecExpiry == InitExpiry /\ [][NextExpiry]_vars

\* ------------------------------------------------------------ wrapWithCache calls

\* what fn does when it runs: it resolves to a value or throws an error
Resolves(value) == [throws |-> FALSE, value |-> value]
Throws(error) == [throws |-> TRUE, value |-> error]

\* the options the function was wrapped with
WrapOptions == [ttl |-> <<1>>, namespace |-> ""]

\* await cachedFunction(...args), of a function f wrapped around the
\* MemoryCache of the process; the call is recorded in the history
Wrapped(args, outcome) ==
  /\ pending = <<>>
  /\ calls < MaxOps
  /\ calls' = calls + 1
  /\ LET r == wrappedFn(This, options, WrapOptions, "f", args, outcome, now) IN
       /\ Become(r.s)
       /\ Returned("wrapped", r.key, r.value, r.resolved)
       /\ invoked' = Append(invoked, [args |-> args, ran |-> r.ran,
                                      outcome |-> IF r.ran THEN outcome
                                                  ELSE Resolves(r.value)])
  /\ UNCHANGED <<options, cleanupTimer, now, pending, written, recency, globalStore,
                 globalAccessOrder, globalAccessCounter, invocationCount, instances,
                 env, caches, managerStats, running>>

WrapArgs == {<<"a">>, <<Null>>, <<Undefined>>}
FnOutcomes == {Resolves("r1"), Resolves("r2"), Resolves(Null), Resolves(Undefined),
               Throws("Error")}

\* A function of one argument wrapped around a cache of two entries that
\* expire after one second; what it does differs from call to call.
InitWrapped ==
  Constructed({[maxSize |-> MaxSize, evictionPolicy |-> "lru", ttl |-> <<>>,
                autoCleanup |-> FALSE]})

NextWrapped ==
  \/ \E args \in WrapArgs, outcome \in FnOutcomes : Wrapped(args, outcome)
  \/ Tick

SpecWrapped == InitWrapped /\ [][NextWrapped]_vars

\* cachedFunction(...args) is called and not awaited: a hit resolves the
\* call, a miss invokes fn, which will settle with outcome
Start(args, outcome) ==
  /\ pending = <<>>
  /\ calls < MaxOps
  /\ calls' = calls + 1
  /\ LET r == wrappedStart(This, WrapOptions, "f", args, now) IN
       /\ Become(r.s)
       /\ IF r.hit
            THEN /\ Returned("wrapped", r.key, r.value, TRUE)
                 /\ invoked' = Append(invoked, [args |-> args, ran |-> FALSE,
                                                outcome |-> Resolves(r.value)])
                 /\ UNCHANGED running
            ELSE /\ Returned("started", r.key, Undefined, TRUE)
                 /\ invoked' = Append(invoked, [args |-> args, ran |-> TRUE,
                                                outcome |-> outcome])
                 /\ running' = Append(running, [args |-> args, key |-> r.key,
                                                outcome |-> outcome])
  /\ UNCHANGED <<options, cleanupTimer, now, pending, written, recency, globalStore,
                 globalAccessOrder, globalAccessCounter, invocationCount, instances,
                 env, caches, managerStats>>

\* the running calls without the i-th
Without(q, i) == SubSeq(q, 1, i - 1) \o SubSeq(q, i + 1, Len(q))

\* fn settles for the i-th running call, and the call goes on to its end
Settle(i) ==
  /\ pending = <<>>
  /\ i \in 1..Len(running)
  /\ LET call == running[i]
         r == wrappedSettle(This, options, WrapOptions, call.key, call.outcome, now)
     IN /\ Become(r.s)
        /\ Returned("wrapped", call.key, r.value, r.resolved)
  /\ running' = Without(running, i)
  /\ UNCHANGED <<options, cleanupTimer, now, pending, written, recency, lambdaVars,
                 env, caches, managerStats, invoked>>

FlightArgs == {<<"a">>, <<"b">>}
FlightOutcomes == {Resolves("r1"), Resolves("r2"), Throws("Error")}

\* Calls of the wrapped function that are in flight together: fn settles
\* for them in any order.
NextFlights ==
  \/ \E args \in FlightArgs, outcome \in FlightOutcomes : Start(args, outcome)
  \/ \E i \in 1..MaxOps : Settle(i)
  \/ Tick

SpecFlights == InitWrapped /\ [][NextFlights]_vars

\* A function of one argument that resolves to falsy values and to an
\* ordinary one, called with two arguments while time passes.
FalsyArgs == {<<"a">>, <<"b">>}
FalsyOutcomes == {Resolves(value) : value \in FalsyResults \cup {"r1", Null}}

NextFalsy ==
  \/ \E args \in FalsyArgs, outcome \in FalsyOutcomes : Wrapped(args, outcome)
  \/ Tick

SpecFalsy == InitWrapped /\ [][NextFalsy]_vars

\* ------------------------------------------------------------ both caches

\* A MemoryCache and LambdaCache instances of one namespace, with and
\* without sharing, in one process: one key each, entries that expire after
\* one second, read before and after they expire.
InitGets ==
  Constructed({[maxSize |-> MaxSize, evictionPolicy |-> "lru", ttl |-> <<>>,
                autoCleanup |-> TRUE]})

\* the calls made on the caches together are bounded
Within == Work(This) + calls < MaxOps

NextGets ==
  \/ Within /\ Get("k1")
  \/ Within /\ Set("k1", "v1", <<1>>)
  \/ Within /\ Delete("k1")
  \/ Within /\ Has("k1")
  \/ Within /\ Clear
  \/ Within /\ Stats
  \/ Within /\ Sweep
  \/ Within /\ Tick
  \/ \E sharing \in BOOLEAN :
       /\ Within
       /\ Len(instances) < MaxCaches
       /\ Construct(LambdaOptions(<<"a">>, sharing, "lru"))
  \/ \E i \in 1..Len(instances) : Within /\ LambdaGet(i, <<"x">>)
  \/ \E i \in 1..Len(instances) : Within /\ LambdaSet(i, <<"x">>, "v1", <<1>>)
  \/ \E i \in 1..Len(instances) : Within /\ LambdaClear(i)

SpecGets == InitGets /\ [][NextGets]_vars

\* Overwrites: a MemoryCache of two entries under every policy and one
\* LambdaCache instance, keys written again with another value after they
\* were read and after time passed.
InitOverwrite ==
  Constructed([maxSize : {MaxSize}, evictionPolicy : Policies, ttl : {<<>>},
               autoCleanup : {FALSE}])

OverwriteKeys == {"k1", "k2"}
OverwriteValues == {"v1", "v2"}

NextOverwrite ==
  \/ \E key \in OverwriteKeys : Within /\ Get(key)
  \/ \E key \in OverwriteKeys, value \in OverwriteValues :
       Within /\ Set(key, value, <<1>>)
  \/ Within /\ Tick
  \/ \E sharing \in BOOLEAN :
       /\ Within
       /\ instances = <<>>
       /\ Construct(LambdaOptions(<<"a">>, sharing, "lfu"))
  \/ \E i \in 1..Len(instances), key \in LambdaKeys : Within /\ LambdaGet(i, key)
  \/ \E i \in 1..Len(instances), key \in LambdaKeys, value \in OverwriteValues :
       Within /\ LambdaSet(i, key, value, <<1>>)

SpecOverwrite == InitOverwrite /\ [][NextOverwrite]_vars

\* ------------------------------------------------------------ properties

\* what the last set of a key recorded, for a key that has such a record
Written(key) == written[key][1]
ExpiryOf(w) == w.at + (w.ttl[1] * MsPerSecond)
HasPositiveTtl(key) ==
  /\ written[key] # <<>>
  /\ Written(key).ttl # <<>>
  /\ Written(key).ttl[1] > 0

CapacityBound == Len(store) <= options.maxSize

\* C3: once all the set calls that were started without being awaited have
\* completed, the store holds at most maxSize entries and every key that is
\* present maps to the value it was set with.
FanOutCapacityBound ==
  pending = <<>> =>
     /\ Len(store) <= options.maxSize
     /\ \A i \in 1..Len(store) :
          /\ written[store[i].key] # <<>>
          /\ store[i].value = Written(store[i].key).value

\* the step is an awaited set of a key that is not in a store of maxSize
\* entries, under the given policy
EvictingSet(key, policy) ==
  /\ ret'.op = "set"
  /\ ret'.key = key
  /\ options.evictionPolicy = policy
  /\ Len(store) = options.maxSize
  /\ ~MapHas(store, key)

\* the step removes exactly the key victim and adds key
Replaces(victim, key) ==
  MapKeys(store') = (MapKeys(store) \ {victim}) \cup {key}

\* C4: under lru, a set of a key not present in a store of maxSize entries
\* removes exactly the key whose most recent touch (a hit of get, or a set)
\* is the oldest, and every other stored key stays; has is no touch.
LruEvictsOldestTouch ==
  [][\A key \in Keys : EvictingSet(key, "lru") => Replaces(Head(recency), key)]_vars

\* victim has the least value of a field among the stored entries and is
\* the first of these in the store's iteration order
FirstLeast(victim, field(_)) ==
  LET i == MapIndex(store, victim) IN
  /\ i # 0
  /\ \A j \in 1..Len(store) : field(store[i]) <= field(store[j])
  /\ \A j \in 1..(i - 1) : field(store[i]) < field(store[j])

AccessCountOf(entry) == entry.accessCount
CreatedAtOf(entry) == entry.createdAt

\* C5: under lfu, a set of a key not present in a store of maxSize entries
\* removes a key whose accessCount is minimal, the first such key in
\* iteration order.
LfuEvictsLeastUsed ==
  [][\A key \in Keys : EvictingSet(key, "lfu") =>
       \E victim \in MapKeys(store) :
          FirstLeast(victim, AccessCountOf) /\ Replaces(victim, key)]_vars

\* C6: under fifo, a set of a key not present in a store of maxSize entries
\* removes the key with the smallest createdAt, the first such key in
\* iteration order, whatever gets the keys received.
FifoEvictsOldest ==
  [][\A key \in Keys : EvictingSet(key, "fifo") =>
       \E victim \in MapKeys(store) :
          FirstLeast(victim, CreatedAtOf) /\ Replaces(victim, key)]_vars

\* key holds value, unexpired
Stored(key, value) ==
  /\ MapHas(store, key)
  /\ MapGet(store, key)[1].value = value
  /\ ~isExpired(MapGet(store, key)[1], now)

\* undefined is stored under k1, null under k2, and k3 has no entry
Sentinels(k1, k2, k3) ==
  /\ Stored(k1, Undefined)
  /\ Stored(k2, Null)
  /\ ~MapHas(store, k3)

\* C7 as stated: with undefined stored under k1 and null under k2, get(k1),
\* get(k2) and get(k3) for a key k3 without entry give three outcomes that
\* are distinct from one another.
SentinelsDistinguishable ==
  \A k1, k2, k3 \in AllKeys :
     Sentinels(k1, k2, k3) =>
        /\ get(This, k1, now).value # get(This, k2, now).value
        /\ get(This, k1, now).value # get(This, k3, now).value
        /\ get(This, k2, now).value # get(This, k3, now).value

\* C7 as amended: get(k1) gives undefined, which differs from the other two;
\* get(k2) and get(k3) both give null, so get does not tell a stored null
\* from an absent key; has does (true for k2, false for k3).
SentinelsThroughGet ==
  \A k1, k2, k3 \in AllKeys :
     Sentinels(k1, k2, k3) =>
        /\ get(This, k1, now).value = Undefined
        /\ get(This, k2, now).value = Null
        /\ get(This, k3, now).value = Null
        /\ Undefined # Null
        /\ has(This, k2, now).found
        /\ ~has(This, k3, now).found

\* get hit the stored null and returned it, with undefined stored as well
SentinelsRead ==
  /\ ret.op = "get"
  /\ ret.ok
  /\ ret.value = Null
  /\ \E k1, k3 \in AllKeys : Sentinels(k1, ret.key, k3)

\* C8: an entry whose effective ttl is unset, 0 or negative never expires:
\* get returns its value until it is overwritten, deleted, cleared or evicted.
NonPositiveTtlNeverExpires ==
  (/\ ret.op = "get"
   /\ written[ret.key] # <<>>
   /\ (Written(ret.key).ttl = <<>> \/ Written(ret.key).ttl[1] <= 0))
     => ret.value = Written(ret.key).value

\* C9: delete(key) returns true exactly when an entry for key was in the
\* store, and the call removes it; afterwards has(key) is false and another
\* delete(key) returns false.
DeleteReturnsRemoved ==
  [][\A key \in Keys :
       (ret'.op = "delete" /\ ret'.key = key) =>
          /\ ret'.ok = MapHas(store, key)
          /\ store' = MapDelete(store, key)
          /\ ~MapHas(store', key)
          /\ ~has(This', key, now').found
          /\ ~delete(This', key).deleted]_vars

\* a delete removed an entry
DeleteRemoved == ret.op = "delete" /\ ret.ok /\ stats.deletes > 0

\* has(key) answers as get(key) would at the same instant, and changes no
\* counter
HasAnswersLikeGet(key) ==
  /\ ret'.ok = get(This, key, now).hit
  /\ stats' = stats
  /\ accessCounter' = accessCounter

\* C10 as stated: has(key) is true exactly when get(key) would be a hit, and
\* it leaves the hit and miss counters, the entry's accessCount and
\* lastAccessAt, the access-order record of every key and the access counter
\* unchanged.
HasChangesNothing ==
  [][\A key \in Keys :
       (ret'.op = "has" /\ ret'.key = key) =>
          /\ HasAnswersLikeGet(key)
          /\ accessOrder' = accessOrder
          /\ \A i \in 1..Len(store') :
               MapGet(store, store'[i].key) = <<store'[i]>>]_vars

\* C10 as amended: has(key) is true exactly when get(key) would be a hit and
\* leaves the counters and the access counter unchanged; it leaves every
\* entry and every access-order record unchanged, except that it removes the
\* entry of key and its access-order record when that entry is expired.
HasRemovesOnlyExpired ==
  [][\A key \in Keys :
       (ret'.op = "has" /\ ret'.key = key) =>
          /\ HasAnswersLikeGet(key)
          /\ IF MapHas(store, key) /\ isExpired(MapGet(store, key)[1], now)
               THEN /\ store' = MapDelete(store, key)
                    /\ accessOrder' = MapDelete(accessOrder, key)
               ELSE /\ store' = store
                    /\ accessOrder' = accessOrder]_vars

\* has found an expired entry: it answered false and the entry is gone
HasOnExpired ==
  /\ ret.op = "has"
  /\ ~ret.ok
  /\ written[ret.key] # <<>>
  /\ HasPositiveTtl(ret.key)
  /\ now > ExpiryOf(Written(ret.key))
  /\ ~MapHas(store, ret.key)
  /\ Len(store) > 0

\* C11: clear() leaves the store with no entries and no access-order records
\* and resets the access counter and the hit, miss and eviction counters to
\* zero, so that stats() right after clear() reports size 0, hits 0, misses 0
\* and hitRate 0.
ClearResetsAll ==
  [][ret'.op = "clear" =>
       /\ store' = <<>>
       /\ accessOrder' = <<>>
       /\ accessCounter' = 0
       /\ stats'.hits = 0 /\ stats'.misses = 0 /\ stats'.evictions = 0
       /\ LET r == statsOf(This', now').result IN
            /\ r # <<>>
            /\ r[1].size = 0 /\ r[1].hits = 0 /\ r[1].misses = 0
            /\ r[1].hitRate = 0]_vars

\* a clear removed entries
Cleared == ret.op = "clear" /\ ret.value > 0

\* the entries of the store that are unexpired at time t
Live(m, t) == {i \in 1..Len(m) : ~isExpired(m[i], t)}

\* h hundredths is hits/total rounded to two decimals
RoundedRate(h, hits, total) ==
  /\ 2 * (100 * hits - h * total) <= total
  /\ 2 * (h * total - 100 * hits) <= total

\* C12: stats() reports size equal to the number of entries that are
\* unexpired at the time of the call, and hitRate equal to hits/(hits+misses)
\* rounded to two decimals, or 0 when hits+misses = 0; 2 hits and 1 miss
\* give 0.67.
StatsReportsLive ==
  [][ret'.op = "stats" =>
       /\ ret'.ok
       /\ ret'.value # <<>>
       /\ ret'.value[1].size = Cardinality(Live(store, now))
       /\ ret'.value[1].hits = stats.hits
       /\ ret'.value[1].misses = stats.misses
       /\ IF stats.hits + stats.misses = 0
            THEN ret'.value[1].hitRate = 0
            ELSE RoundedRate(ret'.value[1].hitRate, stats.hits,
                             stats.hits + stats.misses)
       /\ (stats.hits = 2 /\ stats.misses = 1) => ret'.value[1].hitRate = 67]_vars

\* set for each entry in the map's iteration order, each call awaited before
\* the next is started
RECURSIVE setEach(_, _, _, _, _)
setEach(s, o, entries, ttlOption, t) ==
  IF entries = <<>> THEN s
  ELSE setEach(set(s, o, Head(entries).key, Head(entries).value, ttlOption, t),
               o, Tail(entries), ttlOption, t)

\* C13: mset(entries) leaves the store, the access order and the eviction
\* counter in the same state as calling set for each entry in the map's
\* iteration order and awaiting each call before starting the next, for
\* every starting state, a store at maxSize included.
MsetIsSequentialSets ==
  [][ret'.op = "mset" =>
       LET each == setEach(This, options, ret'.value, <<>>, now) IN
       /\ store' = each.store
       /\ accessOrder' = each.accessOrder
       /\ stats'.evictions = each.stats.evictions]_vars

\* C14: destroy() stops the background sweep: after destroy() returns no
\* timer-driven sweep of that store ever runs; a further destroy(), or a
\* destroy() on a store created with autoCleanup = false, changes nothing.
DestroyStopsSweep ==
  [][/\ ret'.op = "destroy" =>
          /\ ~cleanupTimer'
          /\ This' = This /\ now' = now /\ options' = options
          /\ ~cleanupTimer => ~ret'.ok
     /\ ~cleanupTimer => (~cleanupTimer' /\ ret'.op # "sweep")]_vars

\* destroy() was called again on a cache whose timer an earlier destroy()
\* had stopped, and an expired entry that no sweep removed is still stored
DestroyedAgain ==
  /\ ret.op = "destroy"
  /\ ~ret.ok
  /\ options.autoCleanup
  /\ ~cleanupTimer
  /\ \E i \in 1..Len(store) : isExpired(store[i], now)

\* the namespaces of instances i and j differ
Foreign(i, j) == instances[i].options.namespace # instances[j].options.namespace

\* C15: for two instances with distinct namespaces on the shared store and
\* any key, a set or delete through one never changes what get or has
\* through the other returns.
NamespaceIsolation ==
  [][\A i, j \in 1..Len(instances) :
       (ret'.by = i /\ ret'.op \in {"set", "delete"} /\ Foreign(i, j)) =>
          \A key \in NamespaceKeys :
             /\ lambdaGet(Self(j)', key, now').value = lambdaGet(Self(j), key, now).value
             /\ lambdaHas(Self(j)', key, now').found = lambdaHas(Self(j), key, now).found]_vars

\* the records of map m under the keys that instance i builds from the keys
\* callers use: the entries of its namespace
Owned(i, m) ==
  SelectSeq(m, LAMBDA e :
    \E key \in LambdaKeys : e.key = buildKey(instances[i].options, key))

\* C16: clear() on an instance that uses the shared store removes every
\* entry of its own namespace and leaves the entries and access-order
\* records of every other namespace unchanged; on a private-store instance
\* it empties the private store.
ClearOwnNamespaceOnly ==
  [][\A i \in 1..Len(instances) :
       (ret'.op = "clear" /\ ret'.by = i) =>
          IF instances[i].options.useGlobalContext
            THEN /\ Owned(i, globalStore') = <<>>
                 /\ \A j \in 1..Len(instances) :
                      Foreign(i, j) =>
                         /\ Owned(j, globalStore') = Owned(j, globalStore)
                         /\ Owned(j, globalAccessOrder') = Owned(j, globalAccessOrder)
            ELSE /\ instances'[i].store = <<>>
                 /\ instances'[i].accessOrder = <<>>]_vars

\* C17: no operation of an instance other than clear (set at capacity,
\* cleanupByMemoryPressure, prepareColdStart, the sweep of stats), under any
\* policy, removes an entry that belongs to a different namespace of the
\* shared store.
EvictionStaysInNamespace ==
  [][\A i, j \in 1..Len(instances) :
       (ret'.by = i /\ ret'.op # "clear" /\ Foreign(i, j)) =>
          MapKeys(Owned(j, globalStore)) \subseteq MapKeys(globalStore')]_vars

\* C18: cleanupByMemoryPressure(targetSize), for every targetSize >= 0 that
\* is given and for floor(0.7 * maxSize) when none is, leaves the namespace
\* of the instance with at most targetSize entries and returns the number of
\* entries it removed.
PressureReachesTarget ==
  [][\A i \in 1..Len(instances) :
       (ret'.op = "cleanupByMemoryPressure" /\ ret'.by = i) =>
          LET before == getNamespaceSize(Self(i))
              after == getNamespaceSize(Self(i)')
              target == IF ret'.value.targetSize = <<>>
                          THEN (instances[i].options.maxSize * 7) \div 10
                          ELSE ret'.value.targetSize[1]
          IN /\ after <= target \/ before = 0
             /\ ret'.value.cleaned = before - after]_vars

\* C19: prepareColdStart() removes every expired entry of the namespace of
\* the instance; if the namespace then holds more than 80% of maxSize
\* entries it is reduced to at most floor(0.7 * maxSize) entries, and
\* otherwise no unexpired entry is removed.
ColdStartKeepsLive ==
  [][\A i \in 1..Len(instances) :
       (ret'.op = "prepareColdStart" /\ ret'.by = i) =>
          LET maxSize == instances[i].options.maxSize
              mine == Owned(i, globalStore)
              live == Live(mine, now)
              unexpired == {globalStore[n].key : n \in Live(globalStore, now)}
          IN /\ Live(Owned(i, globalStore'), now') = 1..Len(Owned(i, globalStore'))
             /\ IF Cardinality(live) * 10 > maxSize * 8
                  THEN Len(Owned(i, globalStore')) <= (maxSize * 7) \div 10
                  ELSE unexpired \subseteq MapKeys(globalStore')]_vars

Sharing(i) == instances[i].options.useGlobalContext
ColdStarts(i) == instances[i].stats.coldStarts
WarmStarts(i) == instances[i].stats.warmStarts

\* C20 as stated: a construction records a cold start if and only if sharing
\* is enabled and it is the first construction in the process; every other
\* construction records a warm start, so each construction records exactly
\* one of the two.
FirstConstructionIsCold ==
  \A i \in 1..Len(instances) :
     /\ ColdStarts(i) = (IF Sharing(i) /\ i = 1 THEN 1 ELSE 0)
     /\ WarmStarts(i) = 1 - ColdStarts(i)

\* C20 as amended: a construction with sharing records a cold start if and
\* only if no construction with sharing came before it, and a warm start
\* otherwise; a construction without sharing records neither and does not
\* count as an invocation.  So exactly one cold start is recorded among the
\* sharing instances, whatever calls were made since.
FirstSharingConstructionIsCold ==
  LET sharing == {i \in 1..Len(instances) : Sharing(i)} IN
  /\ \A i \in 1..Len(instances) :
       IF Sharing(i)
         THEN /\ ColdStarts(i) = (IF \E j \in sharing : j < i THEN 0 ELSE 1)
              /\ WarmStarts(i) = 1 - ColdStarts(i)
         ELSE ColdStarts(i) = 0 /\ WarmStarts(i) = 0
  /\ invocationCount = Cardinality(sharing)
  /\ sharing # {} => Cardinality({i \in sharing : ColdStarts(i) = 1}) = 1

\* an instance without sharing was constructed first, then two with sharing:
\* the second construction is the cold start, the third a warm start
ColdStartAfterPrivate ==
  /\ Len(instances) = 3
  /\ ~Sharing(1) /\ Sharing(2) /\ Sharing(3)
  /\ ColdStarts(2) = 1
  /\ WarmStarts(3) = 1
  /\ ret.op = "clear"

\* C21: the isWarm flag that stats() and getLambdaContext() of an instance
\* report is true if and only if a construction with sharing came before the
\* construction of that instance, whatever was constructed since.
IsWarmOfConstruction ==
  \A i \in 1..Len(instances) :
     (ret.by = i /\ ret.op \in {"stats", "getLambdaContext"}) =>
        LET isWarm == IF ret.op = "stats" THEN ret.value.lambda.isWarm
                      ELSE ret.value.isWarm
        IN isWarm <=> \E j \in 1..(i - 1) : Sharing(j)

\* instances i and j both share the static store and have the same namespace
SameShared(i, j) ==
  /\ Sharing(i) /\ Sharing(j)
  /\ instances[i].options.namespace = instances[j].options.namespace

\* C22: an unexpired value set through a sharing instance is what get
\* returns through every sharing instance of the same namespace, one
\* constructed after the set included: after every step the sharing
\* instances of a namespace read the same values.  An instance without
\* sharing never observes what was written through another instance.
WarmStartReuse ==
  [][\A i \in 1..Len(instances') :
       /\ (ret'.op = "set" /\ ret'.by = i /\ Sharing(i)') =>
             \A j \in 1..Len(instances') :
                SameShared(i, j)' =>
                   lambdaGet(Self(j)', ret'.key, now').value = ret'.value
       /\ \A j \in 1..Len(instances') :
             SameShared(i, j)' =>
                lambdaGet(Self(i)', <<"x">>, now').value
                   = lambdaGet(Self(j)', <<"x">>, now').value
       /\ (i <= Len(instances) /\ ~Sharing(i) /\ ret'.by # i) =>
             lambdaGet(Self(i)', <<"x">>, now).value
                = lambdaGet(Self(i), <<"x">>, now).value]_vars

\* the third instance was constructed after a set through the first and read
\* the value without ever writing, while the second, without sharing, missed
ReusedByLaterInstance ==
  /\ Len(instances) = 3
  /\ Sharing(1) /\ ~Sharing(2) /\ Sharing(3)
  /\ instances[1].stats.sets = 1
  /\ instances[2].stats.misses = 1
  /\ instances[3].stats = [ZeroLambdaStats EXCEPT !.hits = 1, !.warmStarts = 1]
  /\ instances[3].accessCounter = 2
  /\ ret.op = "get" /\ ret.by = 3 /\ ret.value = "v1"

\* C23: CacheFactory.auto(options) returns a LambdaCache if at least one of
\* AWS_LAMBDA_FUNCTION_NAME and LAMBDA_RUNTIME_DIR is a non-empty string, and
\* a MemoryCache if both are unset or empty.
AutoDetectsLambda ==
  ret.op = "auto" =>
     /\ ret.value \in {"LambdaCache", "MemoryCache"}
     /\ ret.value = "LambdaCache" <=>
           \E name \in EnvNames : env[name] \notin {Undefined, ""}
     /\ ret.value = "LambdaCache" => instances # <<>>
     /\ ret.value = "MemoryCache" => store = <<>> /\ cleanupTimer

\* auto returned a LambdaCache with only the runtime directory set
AutoByRuntimeDir ==
  /\ ret.op = "auto"
  /\ ret.value = "LambdaCache"
  /\ env.AWS_LAMBDA_FUNCTION_NAME = ""
  /\ env.LAMBDA_RUNTIME_DIR = "fn"

\* what a direct get on tier i returns for key
Holds(cs, i, key, t) == tierGet(cs[i], key, t).value

\* the tiers with an unexpired entry for key
Hitting(cs, key, t) ==
  {i \in 1..Len(cs) :
     LET entry == MapGet(cs[i].s.store, key)
     IN entry # <<>> /\ ~isExpired(entry[1], t)}

\* the tiers whose get returns something for key
Answering(cs, key, t) == {i \in 1..Len(cs) : Holds(cs, i, key, t) # Null}

\* manager.get(key) returns the value of the first tier among `hits`; when
\* get returns, every tier before it holds key with that value and the tiers
\* after it are as they were
FallsThroughTo(hits) ==
  (ret'.op = "get" /\ ret'.by = 0 /\ ret'.ok /\ hits # {}) =>
     LET i == CHOOSE i \in hits : \A j \in hits : i <= j IN
     /\ ret'.value = Holds(caches, i, ret'.key, now)
     /\ \A j \in 1..(i - 1) : Holds(caches', j, ret'.key, now') = ret'.value
     /\ \A j \in (i + 1)..Len(caches) : caches'[j] = caches[j]

\* C24 as stated: manager.get(key) returns the value of the lowest-index
\* tier that has a hit for key; by the time it returns, every tier of lower
\* index holds key with that value, and the tiers of higher index are
\* neither probed nor modified.
GetFallsThroughToFirstHit ==
  [][FallsThroughTo(Hitting(caches, ret'.key, now))]_vars

\* C24 as amended: the same of the lowest-index tier whose get returns a
\* value other than null; a tier that stores null for key is passed over
\* like one that has no entry, and manager.get returns null when no tier
\* returns anything else.
GetFallsThroughToFirstAnswer ==
  [][/\ FallsThroughTo(Answering(caches, ret'.key, now))
     /\ (ret'.op = "get" /\ ret'.by = 0 /\ Answering(caches, ret'.key, now) = {}) =>
           ret'.value = Null]_vars

\* manager.get found the key in the third tier and left it in the first two
PropagatedFromThirdTier ==
  /\ ret.op = "get" /\ ret.by = 0 /\ ret.value = "v1"
  /\ managerStats.totalRequests = 1
  /\ managerStats.l1Hits = 0 /\ managerStats.l2Hits = 0 /\ managerStats.misses = 0
  /\ \A i \in 1..3 : Holds(caches, i, ret.key, now) = "v1"

\* C25: every manager.get adds one to the total of requests and is recorded
\* as exactly one of a hit of tier 0, a hit of tier 1, a hit of a tier of
\* index 2 or more, or a miss; the hit of a tier of index 2 or more counts in
\* the overall hit rate though in neither counter of a tier, so that
\* overallHitRate + missRate = 1 whenever there was a request.
HitAccounting ==
  [][/\ (ret'.op = "get" /\ ret'.by = 0) =>
           managerStats'.totalRequests = managerStats.totalRequests + 1
     /\ (ret'.op = "stats" /\ ret'.by = 0 /\ ret'.ok /\ ret'.value # <<>>
          /\ managerStats.totalRequests > 0) =>
           LET m == ret'.value[1].manager IN
           /\ m.overallHitRate[2] = m.totalRequests
           /\ m.missRate[2] = m.totalRequests
           /\ m.overallHitRate[1] + m.missRate[1] = m.totalRequests
           /\ m.l1HitRate[1] + m.l2HitRate[1] <= m.overallHitRate[1]]_vars

\* the value tier i stores for key, <<>> when it has no entry
StoredIn(cs, i, key) ==
  LET entry == MapGet(cs[i].s.store, key)
  IN IF entry = <<>> THEN <<>> ELSE <<entry[1].value>>

\* C26: manager.set(key, value) writes key to every tier and completes when
\* every write is done; if the write of a tier fails it fails with the error
\* of that tier, unmodified, and the tiers whose write succeeded keep the
\* new value.
SetFansOutWithoutRollback ==
  [][(ret'.op = "set" /\ ret'.by = 0) =>
        LET failed == Rejecting(caches, Len(caches)) IN
        /\ ret'.ok <=> failed = {}
        /\ ~ret'.ok => \E j \in failed : ret'.error = TierError(j)
        /\ \A j \in 1..Len(caches) \ failed :
              StoredIn(caches', j, ret'.key) = <<ret'.value>>]_vars

\* manager.set failed with the error of the tier of index 1 while the two
\* other tiers took the value, the first by evicting what it held
FailedAfterWriting ==
  /\ ret.op = "set" /\ ret.by = 0 /\ ~ret.ok
  /\ ret.error = TierError(2)
  /\ Len(caches) = 3
  /\ StoredIn(caches, 1, ret.key) = <<"v2">>
  /\ StoredIn(caches, 3, ret.key) = <<"v2">>
  /\ caches[1].s.stats.evictions = 1

\* C27: manager.delete(key) removes key from every tier, so that has(key) is
\* false afterwards on each tier and on the manager, and returns true if and
\* only if a tier had an entry to remove.
DeleteFromEveryTier ==
  [][(ret'.op = "delete" /\ ret'.by = 0) =>
        /\ \A j \in 1..Len(caches) :
              /\ ~tierHas(caches'[j], ret'.key, now').found
              /\ StoredIn(caches', j, ret'.key) = <<>>
        /\ ~managerHas(caches', ret'.key, now').found
        /\ ret'.ok <=> \E j \in 1..Len(caches) : StoredIn(caches, j, ret'.key) # <<>>
        /\ \A j \in 1..Len(caches), key \in ManagerKeys \ {ret'.key} :
              StoredIn(caches', j, key) = StoredIn(caches, j, key)]_vars

\* manager.delete returned true though only the last tier held the key
DeletedFromLastTier ==
  /\ ret.op = "delete" /\ ret.by = 0 /\ ret.ok
  /\ caches[1].s.stats.deletes = 0
  /\ caches[2].s.stats.deletes = 0
  /\ caches[3].s.stats.deletes = 1

\* the last call of the wrapped function
LastCall == invoked[Len(invoked)]

\* the unexpired entry the cache holds for key, <<>> when it holds none
LiveEntry(m, key, t) ==
  LET entry == MapGet(m, key)
  IN IF entry # <<>> /\ ~isExpired(entry[1], t) THEN entry ELSE <<>>

\* C28: while the cache holds an unexpired entry for the key of a call, the
\* call returns the cached value and fn does not run, so that calls with the
\* same arguments run fn once and return the same result; a call with
\* arguments that fn never ran with runs fn.
MemoizerReuse ==
  [][ret'.op = "wrapped" =>
        LET entry == LiveEntry(store, ret'.key, now) IN
        /\ entry # <<>> =>
              /\ ~LastCall'.ran
              /\ ret'.ok /\ ret'.value = entry[1].value
              /\ \E n \in 1..Len(invoked) :
                    /\ invoked[n].ran
                    /\ invoked[n].outcome = Resolves(ret'.value)
        /\ (\A n \in 1..Len(invoked) : invoked[n].args # LastCall'.args) =>
              LastCall'.ran]_vars

\* fn resolved to nothing that is cached
Uncached(call) ==
  call.ran /\ ~call.outcome.throws /\ call.outcome.value \in {Null, Undefined}

\* fn resolved to a value that is cached
Cached(call) ==
  call.ran /\ ~call.outcome.throws /\ call.outcome.value \notin {Null, Undefined}

\* C29: when fn resolves to null or undefined the call returns that result
\* and the cache is left without an entry for the key; every later call with
\* the same arguments runs fn again, as long as fn has not resolved to
\* another value for these arguments in between.
NullResultsNotCached ==
  [][ret'.op = "wrapped" =>
        /\ Uncached(LastCall') =>
              /\ ret'.ok /\ ret'.value = LastCall'.outcome.value
              /\ ~MapHas(store', ret'.key)
        /\ (\E n \in 1..Len(invoked) :
               /\ invoked[n].args = LastCall'.args
               /\ Uncached(invoked[n])
               /\ \A m \in (n + 1)..Len(invoked) :
                     invoked[m].args = LastCall'.args => ~Cached(invoked[m])) =>
              LastCall'.ran]_vars

\* C30: when fn throws, the call fails with that error, nothing is stored
\* for the key and the other entries of the cache are as they were; the next
\* call with the same arguments runs fn again, and a result it then resolves
\* to is cached.
ErrorsNotCached ==
  [][ret'.op = "wrapped" =>
        /\ (LastCall'.ran /\ LastCall'.outcome.throws) =>
              /\ ~ret'.ok /\ ret'.value = LastCall'.outcome.value
              /\ ~MapHas(store', ret'.key)
              /\ store' = MapDelete(store, ret'.key)
        /\ (\E n \in 1..Len(invoked) :
               /\ invoked[n].args = LastCall'.args
               /\ invoked[n].ran /\ invoked[n].outcome.throws
               /\ \A m \in (n + 1)..Len(invoked) :
                     invoked[m].args # LastCall'.args) =>
              /\ LastCall'.ran
              /\ Cached(LastCall') =>
                    /\ ret'.ok /\ ret'.value = LastCall'.outcome.value
                    /\ LiveEntry(store', ret'.key, now') # <<>>
                    /\ LiveEntry(store', ret'.key, now')[1].value = ret'.value]_vars

\* C31: a call made while the cache holds no unexpired entry for its key
\* invokes fn, whatever calls with the same arguments are running; when fn
\* settles for a call, the call returns the outcome of its own invocation,
\* and a result that is cached is the value the cache then holds for the key.
NoSingleFlight ==
  [][/\ (ret'.op = "started" \/ (ret'.op = "wrapped" /\ Len(invoked') > Len(invoked))) =>
          (LiveEntry(store, ret'.key, now) = <<>> =>
             /\ LastCall'.ran
             /\ Len(running') = Len(running) + 1
             /\ running'[Len(running')].args = LastCall'.args
             /\ running'[Len(running')].outcome = LastCall'.outcome)
     /\ Len(running') < Len(running) =>
          \E i \in 1..Len(running) :
            /\ running' = Without(running, i)
            /\ ret'.op = "wrapped" /\ ret'.key = running[i].key
            /\ ret'.value = running[i].outcome.value
            /\ ret'.ok = ~running[i].outcome.throws
            /\ Cached([ran |-> TRUE, outcome |-> running[i].outcome]) =>
                 /\ LiveEntry(store', ret'.key, now') # <<>>
                 /\ LiveEntry(store', ret'.key, now')[1].value = ret'.value]_vars

\* two calls with the same arguments both invoked fn; the first has returned
\* its own result, which the cache holds, and the second still awaits fn
BothInvoked ==
  /\ Len(invoked) = 2
  /\ invoked[1] = [args |-> <<"a">>, ran |-> TRUE, outcome |-> Resolves("r1")]
  /\ invoked[2] = [args |-> <<"a">>, ran |-> TRUE, outcome |-> Resolves("r2")]
  /\ Len(running) = 1 /\ running[1].outcome = Resolves("r2")
  /\ ret.op = "wrapped" /\ ret.value = "r1"
  /\ LiveEntry(store, ret.key, now) # <<>>
  /\ LiveEntry(store, ret.key, now)[1].value = "r1"

\* the last call was made on the MemoryCache
OnMemory(r) == "by" \notin DOMAIN r

\* the last call was made on LambdaCache instance i
OnLambda(r, i) == "by" \in DOMAIN r /\ r.by = i

\* the counters move as one get that found the entry does
CountedHit(before, after) ==
  after.hits = before.hits + 1 /\ after.misses = before.misses

\* the counters move as one get that found no entry does
CountedMiss(before, after) ==
  after.hits = before.hits /\ after.misses = before.misses + 1

\* C32: of a MemoryCache and of every LambdaCache instance, a get adds one
\* to hits or one to misses and no other call changes them, except clear(),
\* which sets both to 0 (so that hits + misses counts the gets since
\* construction or the last clear); a get that finds no entry, or an entry
\* that isExpired, is a miss and leaves neither the entry nor its
\* access-order record; a get that finds an unexpired entry adds one to its
\* accessCount and one to the access counter and records the counter for
\* the key.
GetBookkeeping ==
  [][/\ IF OnMemory(ret') /\ ret'.op = "get"
          THEN LET entry == LiveEntry(store, ret'.key, now) IN
               IF entry # <<>>
                 THEN /\ ret'.ok /\ CountedHit(stats, stats')
                      /\ MapGet(store', ret'.key)[1].accessCount
                           = entry[1].accessCount + 1
                      /\ accessCounter' = accessCounter + 1
                      /\ MapGet(accessOrder', ret'.key)[1].n = accessCounter'
                 ELSE /\ ~ret'.ok /\ ret'.value = Null /\ CountedMiss(stats, stats')
                      /\ ~MapHas(store', ret'.key)
                      /\ ~MapHas(accessOrder', ret'.key)
                      /\ accessCounter' = accessCounter
          ELSE IF OnMemory(ret') /\ ret'.op = "clear"
            THEN stats'.hits = 0 /\ stats'.misses = 0
            ELSE stats'.hits = stats.hits /\ stats'.misses = stats.misses
     /\ \A i \in 1..Len(instances') :
          IF i > Len(instances)
            THEN instances'[i].stats.hits = 0 /\ instances'[i].stats.misses = 0
          ELSE IF OnLambda(ret', i) /\ ret'.op = "get"
            THEN LET fullKey == buildKey(Self(i).options, ret'.key)
                     found == MapGet(Self(i).store, fullKey)
                     live == found # <<>> /\ ~lambdaIsExpired(found[1], now)
                 IN IF live
                      THEN /\ ret'.ok
                           /\ CountedHit(instances[i].stats, instances'[i].stats)
                           /\ MapGet(Self(i)'.store, fullKey)[1].accessCount
                                = found[1].accessCount + 1
                           /\ instances'[i].accessCounter
                                = instances[i].accessCounter + 1
                           /\ MapGet(Self(i)'.accessOrder, fullKey)[1].n
                                = instances'[i].accessCounter
                      ELSE /\ ~ret'.ok /\ ret'.value = Null
                           /\ CountedMiss(instances[i].stats, instances'[i].stats)
                           /\ ~MapHas(Self(i)'.store, fullKey)
                           /\ ~MapHas(Self(i)'.accessOrder, fullKey)
                           /\ instances'[i].accessCounter = instances[i].accessCounter
          ELSE IF OnLambda(ret', i) /\ ret'.op = "clear"
            THEN instances'[i].stats.hits = 0 /\ instances'[i].stats.misses = 0
            ELSE /\ instances'[i].stats.hits = instances[i].stats.hits
                 /\ instances'[i].stats.misses = instances[i].stats.misses]_vars

\* a get of the MemoryCache missed on an expired entry, which it removed,
\* after a get of a sharing LambdaCache instance hit an entry
GetsCounted ==
  /\ OnMemory(ret) /\ ret.op = "get" /\ ~ret.ok
  /\ now = MaxNow
  /\ stats.hits = 0 /\ stats.misses = 1 /\ stats.sets = 1
  /\ store = <<>>
  /\ Len(instances) = 1 /\ instances[1].options.useGlobalContext
  /\ instances[1].stats.hits = 1
  /\ Len(globalStore) = 1 /\ globalStore[1].accessCount = 1

\* C33: a set of a key that is not in a store of maxSize entries removes
\* exactly one other entry and adds one to the eviction counter; a set of a
\* key that is in the store removes no entry and leaves the eviction counter;
\* either way the store then holds the key with the value given.
EvictionCountPerSet ==
  [][ret'.op = "set" =>
        /\ (~MapHas(store, ret'.key) /\ Len(store) = maxSizeOf(options)) =>
              /\ Cardinality(MapKeys(store) \ MapKeys(store')) = 1
              /\ stats'.evictions = stats.evictions + 1
        /\ MapHas(store, ret'.key) =>
              /\ MapKeys(store') = MapKeys(store)
              /\ stats'.evictions = stats.evictions
        /\ MapHas(store', ret'.key)
        /\ MapGet(store', ret'.key)[1].value = written'[ret'.key][1].value]_vars

\* the entry a set of key at time t makes, expiring after one second
Fresh(key, value, t) ==
  [key |-> key, value |-> value, expiresAt |-> t + MsPerSecond, createdAt |-> t,
   accessCount |-> 0, lastAccessAt |-> t]

\* the key that evictLeastUsed would choose in store m under LFU or FIFO
Victim(policy, m) ==
  IF policy = "lfu" THEN lfuScan(m, 1, Infinity, <<>>)
  ELSE fifoScan(m, 1, Infinity, <<>>)

\* the last call wrote, on the MemoryCache, a key that the store held
Overwrote == OnMemory(ret') /\ ret'.op = "set" /\ MapHas(store, ret'.key)

\* the last call wrote, on LambdaCache instance 1, a key that its store held
LambdaOverwrote ==
  /\ instances # <<>>
  /\ OnLambda(ret', 1) /\ ret'.op = "set"
  /\ MapHas(Self(1).store, buildKey(Self(1).options, ret'.key))

\* C34 as stated: the entry that an overwrite leaves is a fresh one, and
\* under LFU and FIFO the store is then ranked as if the key had been
\* removed and set as a new key.
OverwriteRanksAsNew ==
  [][Overwrote =>
        LET fresh == Fresh(ret'.key, written'[ret'.key][1].value, now) IN
        /\ MapGet(store', ret'.key) = <<fresh>>
        /\ options.evictionPolicy \in {"lfu", "fifo"} =>
              Victim(options.evictionPolicy, store')
                = Victim(options.evictionPolicy,
                         Append(MapDelete(store, ret'.key), fresh))]_vars

\* C34: a set of a key that has an entry puts a fresh entry in its place:
\* the value given, createdAt the time of the set, expiresAt computed from
\* the ttl of the set, accessCount 0; the entry keeps the place of the old
\* one in the iteration order of the map, which is what LFU and FIFO break
\* ties by, and the other entries are as they were.
OverwriteReplacesEntry ==
  [][/\ Overwrote =>
          store' = MapSet(store, Fresh(ret'.key, written'[ret'.key][1].value, now))
     /\ LambdaOverwrote =>
          Self(1)'.store
            = MapSet(Self(1).store,
                     Fresh(buildKey(Self(1).options, ret'.key), ret'.value, now))]_vars

\* an entry that was read and then written again with another value, one
\* second later, is the first of two entries
Overwritten ==
  /\ OnMemory(ret) /\ ret.op = "set" /\ ret.key = "k1"
  /\ stats.hits = 1 /\ stats.sets = 3
  /\ now = MsPerSecond
  /\ Len(store) = 2
  /\ store[1] = Fresh("k1", "v2", MsPerSecond)
  /\ store[2].key = "k2" /\ store[2].createdAt = 0

\* what get and has answer for key at time t in cache s
Answers(s, key, t) ==
  LET read == get(s, key, t) IN <<read.value, read.hit, has(s, key, t).found>>

\* at this and every later instant, get and has answer the same for every
\* key of the store whether or not a sweep fires now (they find no other key
\* either way)
SweepUnobserved(s, t) ==
  LET swept == cleanupExpired(s, t) IN
  \A key \in MapKeys(s.store), later \in {i \in Instants : i >= t} :
    Answers(swept, key, later) = Answers(s, key, later)

\* what a sweep does to the maps and the counters
SweepRemovesExpired ==
  ret'.op = "sweep" =>
    LET expired == {store[i].key : i \in {j \in 1..Len(store) :
                                            store[j].expiresAt < now}}
    IN /\ store' = SelectSeq(store, LAMBDA e : e.key \notin expired)
       /\ accessOrder' = SelectSeq(accessOrder, LAMBDA a : a.key \notin expired)
       /\ stats' = stats
       /\ accessCounter' = accessCounter

\* get and has answer the same for every key after a set that follows at
\* once, whether or not a sweep fires before that set
SweepUnobservedAfterSet(s, o, t) ==
  LET swept == cleanupExpired(s, t) IN
  \A given \in Keys, key \in Keys :
    Answers(set(swept, o, given, "v1", <<1>>, t), key, t)
      = Answers(set(s, o, given, "v1", <<1>>, t), key, t)

\* C35 as stated: a sweep removes exactly the expired entries and leaves the
\* counters, and get and has answer the same whether or not a sweep has
\* fired, also after the calls that follow.
SweepNeverObserved ==
  [][/\ SweepRemovesExpired
     /\ SweepUnobserved(This', now')
     /\ SweepUnobservedAfterSet(This', options', now')]_vars

\* C35: a sweep removes from both maps exactly the keys of the entries with
\* expiresAt < now, in whatever number, keeps every other entry as it is
\* and leaves the counters; and in the state after every call get and has
\* answer the same, then and at any later instant, whether or not a sweep
\* fires first (the sets that follow may evict differently).
SweepEffect ==
  [][/\ SweepRemovesExpired
     /\ SweepUnobserved(This', now')]_vars

\* a sweep removed the entry that had expired and kept the one that had not
SweptOne ==
  /\ ret.op = "sweep"
  /\ now = MaxNow
  /\ stats.sets = 2 /\ stats.deletes = 0 /\ stats.evictions = 0
  /\ Len(store) = 1 /\ store[1].expiresAt > now
  /\ Len(accessOrder) = 1 /\ accessOrder[1].key = store[1].key

\* C36: every set and every get that hits, made through an instance that
\* shares the static store, records for its key a value greater than every
\* value the shared access-order map held before the call.
MonotonicAccessCounter ==
  [][\A i \in 1..Len(instances) :
        (/\ OnLambda(ret', i)
         /\ instances[i].options.useGlobalContext
         /\ ret'.op = "set" \/ (ret'.op = "get" /\ ret'.ok)) =>
           LET fullKey == buildKey(instances[i].options, ret'.key)
               recorded == MapGet(globalAccessOrder', fullKey)[1].n
           IN \A j \in 1..Len(globalAccessOrder) :
                globalAccessOrder[j].n < recorded]_vars

\* C37: the access-order map has a record for exactly the keys of the entry
\* map, no two records have the same value, and no value is above the
\* access counter.
StoreOrderConsistency ==
  /\ MapKeys(accessOrder) = MapKeys(store)
  /\ \A i, j \in 1..Len(accessOrder) :
       i # j => accessOrder[i].n # accessOrder[j].n
  /\ \A i \in 1..Len(accessOrder) : accessOrder[i].n <= accessCounter

\* two entries are left after three sets, of which one evicted, and a sweep
ConsistentAfterEviction ==
  /\ ret.op = "sweep"
  /\ stats.evictions = 1 /\ stats.deletes = 1 /\ stats.sets = 3
  /\ Len(store) = 2 /\ Len(accessOrder) = 2
  /\ accessCounter = 3

\* C38: a value that manager.get returns is, in the slowest tier, the value
\* of an entry that has not expired: the entry that the last manager.set of
\* the key wrote there with its ttl (no tier is written in another way, and
\* the slowest tier has room for every key).
PropagationPreservesExpiry ==
  [][(ret'.op = "get" /\ ret'.value # Null) =>
        LET entry == LiveEntry(caches[Len(caches)].s.store, ret'.key, now)
        IN entry # <<>> /\ entry[1].value = ret'.value]_vars

\* C39: a set of a new key through an instance whose namespace holds fewer
\* than maxSize entries of the shared store removes no entry and leaves the
\* eviction counter of the instance.
PerNamespaceCapacity ==
  [][\A i \in 1..Len(instances) :
        (/\ OnLambda(ret', i) /\ ret'.op = "set"
         /\ instances[i].options.useGlobalContext
         /\ ~MapHas(globalStore, buildKey(instances[i].options, ret'.key))
         /\ Len(namespaceKeys(Self(i))) < lambdaMaxSizeOf(instances[i].options)) =>
           /\ MapKeys(globalStore) \subseteq MapKeys(globalStore')
           /\ instances'[i].stats.evictions = instances[i].stats.evictions]_vars

\* C40: when fn resolves to a value that is neither null nor undefined, be
\* it falsy, the call returns it and the cache then holds it, unexpired,
\* under the key of the call; and a call that follows at once a call of the
\* same key that returned such a value returns that value without running
\* fn.
FalsyResultsCached ==
  [][ret'.op = "wrapped" =>
        /\ Cached(LastCall') =>
              /\ ret'.ok /\ ret'.value = LastCall'.outcome.value
              /\ LiveEntry(store', ret'.key, now') # <<>>
              /\ LiveEntry(store', ret'.key, now')[1].value = ret'.value
        /\ (/\ ret.op = "wrapped" /\ ret.key = ret'.key
            /\ ret.ok /\ ret.value \notin {Null, Undefined}) =>
              /\ ~LastCall'.ran
              /\ ret'.ok /\ ret'.value = ret.value]_vars

\* fn resolved to false, and the next call with the same argument returned
\* false from the cache without running fn
FalsyServedFromCache ==
  /\ Len(invoked) = 2
  /\ invoked[1] = [args |-> <<"a">>, ran |-> TRUE, outcome |-> Resolves("false")]
  /\ invoked[2] = [args |-> <<"a">>, ran |-> FALSE, outcome |-> Resolves("false")]
  /\ ret.op = "wrapped" /\ ret.ok /\ ret.value = "false"
  /\ stats.hits = 1 /\ stats.sets = 1

====
